---- MODULE Spec2Model ----
(***************************************************************************)
(* Project Sentinel: the event detection engine of                         *)
(* src/src/backend/sentinel_detector.py (class SentinelDetector).          *)
(*                                                                         *)
(* One SentinelDetector instance is modelled.  Its fields are the state    *)
(* variables; the append-only output file is kept as the event_id and the  *)
(* event_name of each of its lines (output_log) plus the full events       *)
(* appended by the most recent call (written).  The wall-clock "timestamp" *)
(* of an event is not modelled: no decision of the detector reads it.      *)
(***************************************************************************)
EXTENDS Integers, Sequences, FiniteSets, TLC

VARIABLES
    seen_rfids,          \* customer_id -> set of SKUs detected by RFID
    scanned_items,       \* customer_id -> set of SKUs scanned at POS
    expected_weights,    \* customer_id -> total expected weight
    inventory_snapshot,  \* SKU -> expected inventory
    event_counter,       \* number of the last event written
    output_log,          \* event_id and event_name of every line of the output file
    written,             \* the events appended to the output file by the latest call
    rec,                 \* the latest call made on the detector and its argument
    ncalls,              \* number of calls made on the detector so far
    serve1,              \* serve1.py run on the same records: its module globals
    files,               \* event_data of every line of the two programs' output files
    event_cache,         \* AnomalyDetector: station_id -> dataset -> cached events
    session_tracker,     \* AnomalyDetector: session key -> session
    ad_call,             \* the latest call made on the AnomalyDetector, with its result
    ad_ncalls,           \* number of calls made on the AnomalyDetector so far
    ad_returned,         \* what each process_event call so far has returned
    client,              \* StreamingClient: the fields of the instance
    gen,                 \* position of the read_events generator in its code
    connects,            \* connect() calls that failed in a row in this generator
    stop_requested,      \* stop_streaming was called since the generator started
    cl_rec,              \* the latest step of the client and its outcome
    sent,                \* the lines the client has read from the current connection
    yielded,             \* positions in sent of the lines read_events has yielded
    worker,              \* the stream_worker thread: its position and handler calls
    caller,              \* the thread that calls start_streaming and stop_streaming
    event_generator,     \* EventGenerator: events (their event_id) and event_counter
    demo                 \* StandaloneSentinelDemo: events, metrics and output file

detector_vars == <<seen_rfids, scanned_items, expected_weights, inventory_snapshot,
                   event_counter, output_log, written, rec, ncalls>>

reference_vars == <<serve1, files>>

anomaly_vars == <<event_cache, session_tracker, ad_call, ad_ncalls, ad_returned>>

client_vars == <<client, gen, connects, stop_requested, cl_rec, sent, yielded,
                 worker, caller>>

tool_vars == <<event_generator, demo>>

vars == <<detector_vars, reference_vars, anomaly_vars, client_vars, tool_vars>>

----------------------------------------------------------------------------
(* Bounds of the model: the number of calls made on one detector, for each  *)
(* of the three streams defined below.                                     *)
MaxMatchCalls == 5
MaxLaneCalls == 3
MaxFloorCalls == 4

(* Program constants.                                                      *)
QueueLengthThreshold == 6
WaitTimeThreshold == 300
WeightTolerance == 50
CrashDurationSeconds == 180
EventIdWidth == 3

(* StreamingClient.__init__: a client that has never connected.  The       *)
(* default max_retries is 10; the model also constructs clients with       *)
(* max_retries from 0 to MaxRetriesBound.                                  *)
DefaultMaxRetries == 10
MaxRetriesBound == 2

NewStreamingClient(max_retries) ==
    [is_running |-> FALSE, connection |-> "None", stream |-> "None",
     retry_count |-> 0, max_retries |-> max_retries]

----------------------------------------------------------------------------
(* Python dictionaries.  A dictionary of the detector's state is a         *)
(* function with a finite domain; a JSON payload ("data") is the sequence  *)
(* of its <<key, value>> pairs in document order, which is the order       *)
(* dict.items() iterates in.                                               *)
EmptyDict == [k \in {} |-> {}]

EmptyData == <<>>

DictGet(d, k, default) == IF k \in DOMAIN d THEN d[k] ELSE default

DictPut(d, k, v) == [x \in (DOMAIN d) \cup {k} |-> IF x = k THEN v ELSE d[x]]

Has(data, k) == \E i \in DOMAIN data : data[i][1] = k

Field(data, k) == data[CHOOSE i \in DOMAIN data : data[i][1] = k][2]

(* Python truthiness of data.get(k) for a string-valued key                *)
TruthyStr(data, k) == Has(data, k) /\ Field(data, k) # ""

(* Python truthiness of data.get(k) for a number-valued key                *)
TruthyNum(data, k) == Has(data, k) /\ Field(data, k) # 0

NumOr(data, k, default) == IF Has(data, k) THEN Field(data, k) ELSE default

Abs(x) == IF x < 0 THEN -x ELSE x

----------------------------------------------------------------------------
(* Dataset names are sequences of characters, so that the normalisation    *)
(* dataset.lower().replace("_", "") and the substring tests are computed.  *)
UpperCase == <<"A","B","C","D","E","F","G","H","I","J","K","L","M",
               "N","O","P","Q","R","S","T","U","V","W","X","Y","Z">>
LowerCase == <<"a","b","c","d","e","f","g","h","i","j","k","l","m",
               "n","o","p","q","r","s","t","u","v","w","x","y","z">>

LowerChar(ch) ==
    IF \E i \in DOMAIN UpperCase : UpperCase[i] = ch
    THEN LowerCase[CHOOSE i \in DOMAIN UpperCase : UpperCase[i] = ch]
    ELSE ch

IsNotUnderscore(ch) == ch # "_"

NormalizeDataset(name) ==
    SelectSeq([i \in DOMAIN name |-> LowerChar(name[i])], IsNotUnderscore)

Contains(s, t) ==
    \E i \in 0..(Len(s) - Len(t)) : SubSeq(s, i + 1, i + Len(t)) = t

T_rfid == <<"r","f","i","d">>
T_pos == <<"p","o","s">>
T_transaction == <<"t","r","a","n","s","a","c","t","i","o","n">>
T_product == <<"p","r","o","d","u","c","t">>
T_recogni == <<"r","e","c","o","g","n","i">>
T_queue == <<"q","u","e","u","e">>
T_inventory == <<"i","n","v","e","n","t","o","r","y">>
T_staffing == <<"s","t","a","f","f","i","n","g">>
T_checkout == <<"c","h","e","c","k","o","u","t">>

----------------------------------------------------------------------------
(* write_event: the event id is "E" followed by the counter in decimal,    *)
(* zero-padded to three digits (f"E{n:03d}").                              *)
RECURSIVE Digits(_)
Digits(n) == IF n < 10 THEN <<n>> ELSE Digits(n \div 10) \o <<n % 10>>

RECURSIVE ZeroPad(_, _)
ZeroPad(ds, width) == IF Len(ds) >= width THEN ds ELSE ZeroPad(<<0>> \o ds, width)

FormatEventId(n) == [prefix |-> "E", digits |-> ZeroPad(Digits(n), EventIdWidth)]

(* st is the state of one call in progress: the detector's fields, the     *)
(* events the call has written so far, whether the output file can be      *)
(* appended to during the call (sink_ok) and whether an OSError is         *)
(* propagating (raised).  write_event has no try: when open() or write()   *)
(* fails, the counter has been incremented and the error leaves            *)
(* write_event and every caller up to the caller of detect().              *)
WriteEvent(st, event_name, data) ==
    LET n == st.event_counter + 1
        \* {"event_name": event_name, **data}: a key of data wins over event_name
        event == [event_id |-> FormatEventId(n),
                  event_data |-> data @@ [event_name |-> event_name]]
    IN  IF st.raised THEN st
        ELSE IF ~st.sink_ok THEN [st EXCEPT !.event_counter = n, !.raised = TRUE]
        ELSE [st EXCEPT !.event_counter = n, !.written = Append(@, event)]

(* the assignments that follow a write_event call are skipped when it raised *)
Then(after_write, assigned) == IF after_write.raised THEN after_write ELSE assigned

----------------------------------------------------------------------------
(* The handlers of detect().  ev is the "event" object of the record.      *)
None == "None"

ProcessRfidData(st, ev, station, cust) ==
    LET data == DictGet(ev, "data", EmptyData)
    IN  IF TruthyStr(data, "sku")
        THEN [st EXCEPT !.seen_rfids =
                 DictPut(@, cust, DictGet(@, cust, {}) \cup {Field(data, "sku")})]
        ELSE st

RecordPosScan(st, data, cust) ==
    IF TruthyStr(data, "sku")
    THEN [st EXCEPT
            !.scanned_items =
                DictPut(@, cust, DictGet(@, cust, {}) \cup {Field(data, "sku")}),
            !.expected_weights =
                DictPut(@, cust, DictGet(@, cust, 0) + NumOr(data, "weight_g", 0))]
    ELSE st

(* A faulty variant of _process_pos_transaction that leaves the matched SKU *)
(* in seen_rfids (the discard of line 139 forgotten); property C4 rejects  *)
(* it.                                                                     *)
ProcessPosTransactionKeepsMatch(st, ev, station, cust, status) ==
    LET data == DictGet(ev, "data", EmptyData)
        sku == IF Has(data, "sku") THEN Field(data, "sku") ELSE None
        st1 == RecordPosScan(st, data, cust)
    IN  IF status = "System Crash"
        THEN WriteEvent(st1, "Unexpected Systems Crash",
                        [station_id |-> station,
                         duration_seconds |-> CrashDurationSeconds])
        ELSE IF TruthyStr(data, "sku") /\ sku \in DictGet(st1.seen_rfids, cust, {})
        THEN WriteEvent(st1, "Succes Operation",
                        [station_id |-> station, customer_id |-> cust,
                         product_sku |-> sku])
        ELSE st1

ProcessPosTransaction(st, ev, station, cust, status) ==
    LET data == DictGet(ev, "data", EmptyData)
        sku == IF Has(data, "sku") THEN Field(data, "sku") ELSE None
        st1 == RecordPosScan(st, data, cust)
    IN  IF status = "System Crash"
        THEN WriteEvent(st1, "Unexpected Systems Crash",
                        [station_id |-> station,
                         duration_seconds |-> CrashDurationSeconds])
        ELSE IF TruthyStr(data, "sku") /\ sku \in DictGet(st1.seen_rfids, cust, {})
        THEN WriteEvent([st1 EXCEPT !.seen_rfids[cust] = @ \ {sku}],
                        "Succes Operation",
                        [station_id |-> station, customer_id |-> cust,
                         product_sku |-> sku])
        ELSE IF /\ TruthyNum(data, "weight_g")
                /\ TruthyNum(data, "price")
                /\ Abs(Field(data, "weight_g") - Field(data, "price")) > WeightTolerance
        THEN WriteEvent(st1, "Weight Discrepancies",
                        [station_id |-> station, customer_id |-> cust,
                         product_sku |-> sku,
                         expected_weight |-> Field(data, "price"),
                         actual_weight |-> Field(data, "weight_g")])
        ELSE st1

(* list(set)[-1]: the element a set is iterated last is not determined by  *)
(* the program (string hashing is seeded per process), so every element of *)
(* the customer's scanned set is a possible last_scanned.                  *)
ProcessProductRecognition(st, ev, station, cust) ==
    LET data == DictGet(ev, "data", EmptyData)
        scanned == DictGet(st.scanned_items, cust, {})
    IN  IF scanned = {} \/ ~TruthyStr(data, "predicted_product")
        THEN {st}
        ELSE {IF Field(data, "predicted_product") # last_scanned
              THEN WriteEvent(st, "Barcode Switching",
                              [station_id |-> station, customer_id |-> cust,
                               actual_sku |-> Field(data, "predicted_product"),
                               scanned_sku |-> last_scanned])
              ELSE st : last_scanned \in scanned}

ProcessQueueMonitoring(st, ev, station, cust) ==
    LET data == DictGet(ev, "data", EmptyData)
        customer_count == NumOr(data, "customer_count", 0)
        dwell == NumOr(data, "average_dwell_time", 0)
    IN  IF customer_count >= QueueLengthThreshold
        THEN WriteEvent(st, "Long Queue Length",
                        [station_id |-> station, num_of_customers |-> customer_count])
        ELSE IF dwell >= WaitTimeThreshold
        THEN WriteEvent(st, "Long Wait Time",
                        [station_id |-> station, customer_id |-> cust,
                         wait_time_seconds |-> dwell])
        ELSE st

(* for sku, qty in data.items(): the loop from item i on                   *)
RECURSIVE InventoryLoop(_, _, _)
InventoryLoop(st, data, i) ==
    IF i > Len(data) THEN st
    ELSE LET sku == data[i][1]
             qty == data[i][2]
         IN  IF sku \in DOMAIN st.inventory_snapshot /\ qty # st.inventory_snapshot[sku]
             THEN \* write the event, store the quantity and return
                  LET event == WriteEvent(st, "Inventory Discrepancy",
                                          [SKU |-> sku,
                                           Expected_Inventory |-> st.inventory_snapshot[sku],
                                           Actual_Inventory |-> qty])
                  IN  Then(event, [event EXCEPT !.inventory_snapshot = DictPut(@, sku, qty)])
             ELSE InventoryLoop([st EXCEPT !.inventory_snapshot = DictPut(@, sku, qty)],
                                data, i + 1)

(* A faulty variant of _process_inventory_snapshot that reports a SKU only  *)
(* when its quantity grew (qty > stored instead of qty != stored);         *)
(* property C8 rejects it.                                                 *)
RECURSIVE InventoryLoopOnIncrease(_, _, _)
InventoryLoopOnIncrease(st, data, i) ==
    IF i > Len(data) THEN st
    ELSE LET sku == data[i][1]
             qty == data[i][2]
         IN  IF sku \in DOMAIN st.inventory_snapshot /\ qty > st.inventory_snapshot[sku]
             THEN LET event == WriteEvent(st, "Inventory Discrepancy",
                                          [SKU |-> sku,
                                           Expected_Inventory |-> st.inventory_snapshot[sku],
                                           Actual_Inventory |-> qty])
                  IN  Then(event, [event EXCEPT !.inventory_snapshot = DictPut(@, sku, qty)])
             ELSE InventoryLoopOnIncrease(
                      [st EXCEPT !.inventory_snapshot = DictPut(@, sku, qty)],
                      data, i + 1)

ProcessInventorySnapshotOnIncrease(st, ev, station) ==
    InventoryLoopOnIncrease(st, DictGet(ev, "data", EmptyData), 1)

ProcessInventorySnapshot(st, ev, station) ==
    InventoryLoop(st, DictGet(ev, "data", EmptyData), 1)

ProcessStaffing(st, ev, station) ==
    LET data == DictGet(ev, "data", EmptyData)
    IN  WriteEvent(st, "Staffing Needs",
                   [station_id |-> station,
                    Staff_type |-> IF Has(data, "Staff_type")
                                   THEN Field(data, "Staff_type") ELSE "UNKNOWN"])

ProcessCheckoutAction(st, ev, station) ==
    LET data == DictGet(ev, "data", EmptyData)
    IN  WriteEvent(st, "Checkout Station Action",
                   [station_id |-> station,
                    Action |-> IF Has(data, "Action")
                               THEN Field(data, "Action") ELSE "Open"])

(* _check_scanner_avoidance.  The customers are visited in the order of    *)
(* the seen_rfids dictionary and the SKUs of one customer in the order of  *)
(* the set "missing"; neither order is kept by this model, so every order  *)
(* that reports the SKUs of one customer together is a possible outcome.   *)
Missing(st, cust_id) ==
    st.seen_rfids[cust_id] \ DictGet(st.scanned_items, cust_id, {})

MissingPairs(st) ==
    UNION {{<<cust_id, sku>> : sku \in Missing(st, cust_id)} :
           cust_id \in DOMAIN st.seen_rfids}

SweepOrders(st) ==
    LET pairs == MissingPairs(st)
        n == Cardinality(pairs)
    IN  {o \in [1..n -> pairs] :
            /\ \A i, j \in 1..n : i # j => o[i] # o[j]
            /\ \A i, j, k \in 1..n :
                  (i < j /\ j < k /\ o[i][1] = o[k][1]) => o[j][1] = o[i][1]}

RECURSIVE WriteAvoidances(_, _, _, _)
WriteAvoidances(st, station, order, i) ==
    IF i > Len(order) THEN st
    ELSE WriteAvoidances(
            WriteEvent(st, "Scanner Avoidance",
                       [station_id |-> station, customer_id |-> order[i][1],
                        product_sku |-> order[i][2]]),
            station, order, i + 1)

(* A faulty variant of the clearing step that removes only the reported    *)
(* SKUs from seen_rfids instead of clearing the set; property C2 rejects   *)
(* it.                                                                     *)
ClearReportedOnlyMissing(st) ==
    [st EXCEPT !.seen_rfids =
        [cust_id \in DOMAIN st.seen_rfids |->
            st.seen_rfids[cust_id] \ Missing(st, cust_id)]]

(* A faulty variant of the clearing step that forgets line 250 and leaves  *)
(* seen_rfids as it was; property C31 rejects it.                          *)
ClearReportedNever(st) == st

ClearReported(st) ==
    [st EXCEPT !.seen_rfids =
        [cust_id \in DOMAIN st.seen_rfids |->
            IF Missing(st, cust_id) # {} THEN {} ELSE st.seen_rfids[cust_id]]]

CheckScannerAvoidance(st, station) ==
    {LET reported == WriteAvoidances(st, station, order, 1)
     IN  Then(reported, [reported EXCEPT !.seen_rfids = ClearReported(st).seen_rfids]) :
        order \in SweepOrders(st)}

(* detect(): the dispatch on the normalised dataset name, then the sweep.  *)
CustomerOf(ev) ==
    LET data == DictGet(ev, "data", EmptyData)
    IN  IF TruthyStr(data, "customer_id") THEN Field(data, "customer_id")
        ELSE DictGet(ev, "customer_id", "UNKNOWN")

Dispatch(st, streaming_event) ==
    LET dataset_lower == NormalizeDataset(DictGet(streaming_event, "dataset", <<>>))
        ev == streaming_event.event
        status == DictGet(ev, "status", None)
        station == DictGet(ev, "station_id", "UNKNOWN")
        cust == CustomerOf(ev)
    IN  IF Contains(dataset_lower, T_rfid) /\ status = "Active"
        THEN {ProcessRfidData(st, ev, station, cust)}
        ELSE IF Contains(dataset_lower, T_pos) \/ Contains(dataset_lower, T_transaction)
        THEN {ProcessPosTransaction(st, ev, station, cust, status)}
        ELSE IF Contains(dataset_lower, T_product) /\ Contains(dataset_lower, T_recogni)
                /\ status = "Active"
        THEN ProcessProductRecognition(st, ev, station, cust)
        ELSE IF Contains(dataset_lower, T_queue) /\ status = "Active"
        THEN {ProcessQueueMonitoring(st, ev, station, cust)}
        ELSE IF Contains(dataset_lower, T_inventory) /\ status = "Active"
        THEN {ProcessInventorySnapshot(st, ev, station)}
        ELSE IF Contains(dataset_lower, T_staffing) /\ status = "Active"
        THEN {ProcessStaffing(st, ev, station)}
        ELSE IF Contains(dataset_lower, T_checkout) /\ status = "Active"
        THEN {ProcessCheckoutAction(st, ev, station)}
        ELSE {st}

DetectOutcomes(st, streaming_event) ==
    UNION {IF handled.raised THEN {handled}
           ELSE CheckScannerAvoidance(handled,
                                      DictGet(streaming_event.event, "station_id", "UNKNOWN")) :
           handled \in Dispatch(st, streaming_event)}

----------------------------------------------------------------------------
(* The records of the stream.                                              *)
Customers == {"C001", "C004"}
SKUs == {"PRD_F_03", "PRD_S_04"}
Stations == {"SCC1"}
Quantities == {120, 150}

D_rfid == <<"R","F","I","D","_","d","a","t","a">>
D_pos == <<"P","O","S","_","T","r","a","n","s","a","c","t","i","o","n","s">>
D_recognition == <<"P","r","o","d","u","c","t","_","r","e","c","o","g","n","i","s","m">>
D_queue == <<"Q","u","e","u","e","_","m","o","n","i","t","o","r">>
D_inventory == <<"i","n","v","e","n","t","o","r","y","_","s","n","a","p","s","h","o","t","s">>
D_staffing == <<"s","t","a","f","f","i","n","g">>
D_checkout == <<"c","h","e","c","k","o","u","t","_","a","c","t","i","o","n">>
D_other == <<"h","e","a","r","t","b","e","a","t">>

Opt(key, values) == {<<>>} \cup {<< <<key, v>> >> : v \in values}

Record(dataset, status, station, customer, data) ==
    [dataset |-> dataset,
     event |-> [status |-> status, station_id |-> station,
                customer_id |-> customer, data |-> data]]

(* a record that carries the customer in its nested data object            *)
NestedRecord(dataset, status, station, customer, data) ==
    [dataset |-> dataset,
     event |-> [status |-> status, station_id |-> station,
                data |-> data \o << <<"customer_id", customer>> >>]]

(* a record without customer                                               *)
StationRecord(dataset, status, station, data) ==
    [dataset |-> dataset,
     event |-> [status |-> status, station_id |-> station, data |-> data]]

(* weight_g and price of a POS payload: absent, |680 - 425| = 255,         *)
(* |150 - 148| = 2 and |150 - 100| = 50                                    *)
WeightPrice ==
    {<<>>,
     << <<"weight_g", 680>>, <<"price", 425>> >>,
     << <<"weight_g", 150>>, <<"price", 148>> >>,
     << <<"weight_g", 150>>, <<"price", 100>> >>}

PosData == {sku \o wp : sku \in Opt("sku", SKUs), wp \in WeightPrice}

(* Stream 1: RFID reads and POS scans of the same customers and SKUs       *)
MatchRecords ==
    {Record(D_rfid, "Active", p, c, << <<"sku", sku>> >>) :
        p \in Stations, c \in Customers, sku \in SKUs}
    \cup
    {Record(D_pos, "Active", p, c, << <<"sku", sku>> >>) :
        p \in Stations, c \in Customers, sku \in SKUs}

(* Stream 2: the checkout lane: RFID, POS and product recognition          *)
LaneRfidRecords ==
    {Record(D_rfid, "Active", p, c, sku) :
        p \in Stations, c \in Customers, sku \in Opt("sku", SKUs)}
    \cup {Record(D_rfid, "Inactive", "SCC1", "C001", << <<"sku", "PRD_F_03">> >>)}

LanePosRecords ==
    {Record(D_pos, "Active", p, c, data) :
        p \in Stations, c \in Customers, data \in PosData}
    \cup
    {Record(D_pos, "System Crash", p, c, data) :
        p \in Stations, c \in Customers,
        data \in {<<>>, << <<"sku", "PRD_F_03">>, <<"weight_g", 680>>, <<"price", 425>> >>}}
    \cup
    {NestedRecord(D_pos, "Active", p, c, << <<"sku", "PRD_S_04">> >>) :
        p \in Stations, c \in Customers}

LaneRecognitionRecords ==
    {Record(D_recognition, "Active", p, c, predicted) :
        p \in Stations, c \in Customers, predicted \in Opt("predicted_product", SKUs)}
    \cup {Record(D_recognition, "Inactive", "SCC1", "C001",
                 << <<"predicted_product", "PRD_F_03">> >>)}

LaneRecords == LaneRfidRecords \cup LanePosRecords \cup LaneRecognitionRecords

(* Stream 3: the shop floor: queue, inventory, staffing, checkout action   *)
QueueRecords ==
    {Record(D_queue, "Active", p, "C015", count \o dwell) :
        p \in Stations,
        count \in Opt("customer_count", {5, 6}),
        dwell \in Opt("average_dwell_time", {299, 300})}
    \cup {Record(D_queue, "Inactive", "SCC1", "C015",
                 << <<"customer_count", 6>>, <<"average_dwell_time", 300>> >>)}

SameKeyTwice ==
    {<< <<sku, q1>>, <<sku, q2>> >> : sku \in SKUs, q1 \in Quantities, q2 \in Quantities}

InventoryData ==
    {<<>>}
    \cup {<< <<sku, qty>> >> : sku \in SKUs, qty \in Quantities}
    \cup ({<< <<s1, q1>>, <<s2, q2>> >> :
             s1 \in SKUs, s2 \in SKUs, q1 \in Quantities, q2 \in Quantities}
          \ SameKeyTwice)

InventoryRecords ==
    {StationRecord(D_inventory, "Active", "WAREHOUSE", data) : data \in InventoryData}
    \cup {StationRecord(D_inventory, "Inactive", "WAREHOUSE", << <<"PRD_F_03", 150>> >>)}

StaffingRecords ==
    {StationRecord(D_staffing, "Active", p, data) :
        p \in Stations, data \in Opt("Staff_type", {"Cashier"})}
    \cup {StationRecord(D_staffing, "Inactive", "SCC1", <<>>)}

CheckoutRecords ==
    {StationRecord(D_checkout, "Active", p, data) :
        p \in Stations, data \in Opt("Action", {"Close"})}
    \cup {StationRecord(D_checkout, "Inactive", "SCC1", <<>>)}

OtherRecords ==
    {[dataset |-> D_other, event |-> [status |-> "Active", data |-> <<>>]]}

FloorRecords ==
    QueueRecords \cup InventoryRecords \cup StaffingRecords \cup CheckoutRecords
    \cup OtherRecords

----------------------------------------------------------------------------
(* The detector after __init__.                                            *)
Init ==
    /\ seen_rfids = EmptyDict
    /\ scanned_items = EmptyDict
    /\ expected_weights = EmptyDict
    /\ inventory_snapshot = EmptyDict
    /\ event_counter = 0
    /\ output_log = <<>>
    /\ written = <<>>
    /\ rec = [op |-> "__init__"]
    /\ ncalls = 0
    /\ serve1 = [seen_rfids |-> EmptyDict, scanned_items |-> EmptyDict,
                 expected_weights |-> EmptyDict, inventory_snapshot |-> EmptyDict,
                 event_counter |-> 0, written |-> <<>>,
                 sink_ok |-> TRUE, raised |-> FALSE]
    /\ files = [detector |-> <<>>, serve1 |-> <<>>]
    /\ event_cache = EmptyDict
    /\ session_tracker = EmptyDict
    /\ ad_call = [op |-> "__init__"]
    /\ client = NewStreamingClient(DefaultMaxRetries)
    /\ gen = "unstarted"
    /\ connects = 0
    /\ stop_requested = FALSE
    /\ cl_rec = [op |-> "__init__", outcome |-> "constructed", slept |-> FALSE]
    /\ sent = <<>>
    /\ yielded = <<>>
    /\ worker = [pc |-> "unstarted", handled |-> <<>>]
    /\ caller = [pc |-> "idle", worker_at_stop |-> "unstarted",
                 handled_at_stop |-> 0, sent_at_stop |-> 0]
    /\ ad_ncalls = 0
    /\ ad_returned = <<>>
    /\ event_generator = [events |-> <<>>, event_counter |-> 0, calls |-> 0]
    /\ demo = [events |-> <<>>, event_counter |-> 0, total_events |-> 0,
               active_stations |-> <<>>, active_customers |-> <<>>,
               alerts |-> <<>>, file |-> <<>>]

Current ==
    [seen_rfids |-> seen_rfids, scanned_items |-> scanned_items,
     expected_weights |-> expected_weights,
     inventory_snapshot |-> inventory_snapshot,
     event_counter |-> event_counter, written |-> <<>>,
     sink_ok |-> TRUE, raised |-> FALSE]

Commit(st, call) ==
    /\ seen_rfids' = st.seen_rfids
    /\ scanned_items' = st.scanned_items
    /\ expected_weights' = st.expected_weights
    /\ inventory_snapshot' = st.inventory_snapshot
    /\ event_counter' = st.event_counter
    /\ written' = st.written
    /\ output_log' = output_log \o
                        [i \in DOMAIN st.written |->
                            [event_id |-> st.written[i].event_id,
                             event_name |-> st.written[i].event_data.event_name]]
    /\ rec' = call
    /\ ncalls' = ncalls + 1

(* detect(streaming_event) for a record of the stream                      *)
Detect(stream, max_calls) ==
    /\ ncalls < max_calls
    /\ \E streaming_event \in stream :
         \E st \in DetectOutcomes(Current, streaming_event) :
            Commit(st, [op |-> "detect", streaming_event |-> streaming_event])
    /\ UNCHANGED <<reference_vars, anomaly_vars, client_vars, tool_vars>>

(* a direct call of _check_scanner_avoidance(station), as test_detection.py makes *)
SweepCall(max_calls) ==
    /\ ncalls < max_calls
    /\ \E station \in Stations :
         \E st \in CheckScannerAvoidance(Current, station) :
            Commit(st, [op |-> "_check_scanner_avoidance", station |-> station])
    /\ UNCHANGED <<reference_vars, anomaly_vars, client_vars, tool_vars>>

(* a direct call of write_event(event_name, data)                          *)
WriteEventCall(max_calls) ==
    /\ ncalls < max_calls
    /\ \E station \in Stations :
         Commit(WriteEvent(Current, "Checkout Station Action",
                           [station_id |-> station, Action |-> "Open"]),
                [op |-> "write_event"])
    /\ UNCHANGED <<reference_vars, anomaly_vars, client_vars, tool_vars>>

ResetState(max_calls) ==
    /\ ncalls < max_calls
    /\ seen_rfids' = EmptyDict
    /\ scanned_items' = EmptyDict
    /\ expected_weights' = EmptyDict
    /\ inventory_snapshot' = EmptyDict
    /\ event_counter' = 0
    /\ written' = <<>>
    /\ rec' = [op |-> "reset_state"]
    /\ ncalls' = ncalls + 1
    /\ UNCHANGED <<output_log, reference_vars, anomaly_vars, client_vars, tool_vars>>

NextMatch ==
    \/ Detect(MatchRecords, MaxMatchCalls)
    \/ SweepCall(MaxMatchCalls)
    \/ WriteEventCall(MaxMatchCalls)
    \/ ResetState(MaxMatchCalls)

NextLane ==
    \/ Detect(LaneRecords, MaxLaneCalls)
    \/ SweepCall(MaxLaneCalls)
    \/ WriteEventCall(MaxLaneCalls)
    \/ ResetState(MaxLaneCalls)

NextFloor ==
    \/ Detect(FloorRecords, MaxFloorCalls)
    \/ SweepCall(MaxFloorCalls)
    \/ WriteEventCall(MaxFloorCalls)
    \/ ResetState(MaxFloorCalls)

SpecMatch == Init /\ [][NextMatch]_vars

SpecLane == Init /\ [][NextLane]_vars

SpecFloor == Init /\ [][NextFloor]_vars

(* Stream 4: records handed to detect() while the output file cannot be    *)
(* appended to (disk full, directory removed): every open() of the call    *)
(* raises OSError.  The caller is the loop of test_detection.py, which     *)
(* has no try either; the model lets it go on with the next record to      *)
(* show the state the error leaves behind.                                 *)
MaxSinkCalls == 3

SinkRecords ==
    MatchRecords
    \cup {StationRecord(D_staffing, "Active", "SCC1", << <<"Staff_type", "Cashier">> >>)}
    \cup {StationRecord(D_inventory, "Active", "WAREHOUSE", << <<"PRD_F_03", qty>> >>) :
             qty \in Quantities}

DetectSinkDown ==
    /\ ncalls < MaxSinkCalls
    /\ \E streaming_event \in SinkRecords :
         \E st \in DetectOutcomes([Current EXCEPT !.sink_ok = FALSE], streaming_event) :
            Commit(st, [op |-> "detect", streaming_event |-> streaming_event,
                        sink |-> "unavailable", raised |-> st.raised])
    /\ UNCHANGED <<reference_vars, anomaly_vars, client_vars, tool_vars>>

NextSink ==
    \/ Detect(SinkRecords, MaxSinkCalls)
    \/ DetectSinkDown

SpecSink == Init /\ [][NextSink]_vars

(* Stream 5: the RFID reads and POS scans of stream 1, and records whose   *)
(* dataset name holds the keywords of two stream kinds.                    *)
MaxDispatchCalls == 3

DispatchRecords ==
    MatchRecords
    \cup {Record(<<"q","u","e","u","e","_","s","t","a","f","f","i","n","g">>, "Active", "SCC1", "C015",
                 << <<"customer_count", count>>, <<"Staff_type", "Cashier">> >>) :
             count \in {5, 6}}
    \cup {Record(<<"p","o","s","_","c","h","e","c","k","o","u","t">>, "Active", "SCC1", "C001",
                 << <<"sku", "PRD_F_03">>, <<"Action", "Close">> >>)}

NextDispatch == Detect(DispatchRecords, MaxDispatchCalls)

SpecDispatch == Init /\ [][NextDispatch]_vars

----------------------------------------------------------------------------
(* The reference implementation src/zebra/runs/serve1.py, run on the same  *)
(* records as the detector.  Its module globals are the fields of the      *)
(* record serve1; its tests on the dataset name are equalities with the    *)
(* lower-cased name, without the removal of "_".                           *)
MaxReferenceCalls == 3

Serve1Names ==
    [rfid        |-> <<"r","f","i","d","_","d","a","t","a">>,
     pos         |-> <<"p","o","s","_","t","r","a","n","s","a","c","t","i","o","n","s">>,
     recognition |-> <<"p","r","o","d","u","c","t","_","r","e","c","o","g","n","i",
                       "t","i","o","n">>,
     queue       |-> <<"q","u","e","u","e","_","m","o","n","i","t","o","r">>,
     inventory   |-> D_inventory,
     staffing    |-> D_staffing,
     checkout    |-> D_checkout]

Lower(name) == [i \in DOMAIN name |-> LowerChar(name[i])]

(* blocks 2 and 4 of serve1.detect for a POS record: the scan is recorded  *)
(* even without a sku (None joins the set), the crash, success and weight  *)
(* tests are independent ifs, and the product_sku of a weight event is     *)
(* list(scanned_items[cust])[-1], any element of the set                   *)
Serve1Pos(st, ev, station, cust, status) ==
    LET data == ev.data
        sku == IF Has(data, "sku") THEN Field(data, "sku") ELSE None
        st1 == [st EXCEPT
                  !.scanned_items = DictPut(@, cust, DictGet(@, cust, {}) \cup {sku}),
                  !.expected_weights =
                      DictPut(@, cust, DictGet(@, cust, 0) + NumOr(data, "weight_g", 0))]
        st2 == IF status = "System Crash"
               THEN WriteEvent(st1, "Unexpected Systems Crash",
                               [station_id |-> station,
                                duration_seconds |-> CrashDurationSeconds])
               ELSE st1
        st3 == IF sku \in DictGet(st2.seen_rfids, cust, {})
               THEN LET event == WriteEvent(st2, "Succes Operation",
                                            [station_id |-> station, customer_id |-> cust,
                                             product_sku |-> sku])
                    IN  Then(event, [event EXCEPT !.seen_rfids[cust] = @ \ {sku}])
               ELSE st2
    IN  IF /\ TruthyNum(data, "weight_g")
           /\ TruthyNum(data, "price")
           /\ Abs(Field(data, "weight_g") - Field(data, "price")) > WeightTolerance
        THEN {WriteEvent(st3, "Weight Discrepancies",
                         [station_id |-> station, customer_id |-> cust,
                          product_sku |-> last_sku,
                          expected_weight |-> Field(data, "price"),
                          actual_weight |-> Field(data, "weight_g")]) :
                 last_sku \in st3.scanned_items[cust]}
        ELSE {st3}

(* block 3: last_scanned is any element of the set; None is not truthy     *)
Serve1Recognition(st, ev, station, cust) ==
    LET scanned == DictGet(st.scanned_items, cust, {})
    IN  IF scanned = {} \/ ~TruthyStr(ev.data, "predicted_product")
        THEN {st}
        ELSE {IF last_scanned # None /\ Field(ev.data, "predicted_product") # last_scanned
              THEN WriteEvent(st, "Barcode Switching",
                              [station_id |-> station, customer_id |-> cust,
                               actual_sku |-> Field(ev.data, "predicted_product"),
                               scanned_sku |-> last_scanned])
              ELSE st : last_scanned \in scanned}

(* block 5: two independent ifs                                            *)
Serve1Queue(st, ev, station, cust) ==
    LET customer_count == NumOr(ev.data, "customer_count", 0)
        dwell == NumOr(ev.data, "average_dwell_time", 0)
        st1 == IF customer_count >= QueueLengthThreshold
               THEN WriteEvent(st, "Long Queue Length",
                               [station_id |-> station,
                                num_of_customers |-> customer_count])
               ELSE st
    IN  IF dwell >= WaitTimeThreshold
        THEN WriteEvent(st1, "Long Wait Time",
                        [station_id |-> station, customer_id |-> cust,
                         wait_time_seconds |-> dwell])
        ELSE st1

(* block 6: the loop visits every pair                                     *)
RECURSIVE Serve1Inventory(_, _, _)
Serve1Inventory(st, data, i) ==
    IF i > Len(data) THEN st
    ELSE LET sku == data[i][1]
             qty == data[i][2]
             st1 == IF sku \in DOMAIN st.inventory_snapshot
                       /\ qty # st.inventory_snapshot[sku]
                    THEN WriteEvent(st, "Inventory Discrepancy",
                                    [SKU |-> sku,
                                     Expected_Inventory |-> st.inventory_snapshot[sku],
                                     Actual_Inventory |-> qty])
                    ELSE st
         IN  Then(st1, Serve1Inventory(
                          [st1 EXCEPT !.inventory_snapshot = DictPut(@, sku, qty)],
                          data, i + 1))

(* blocks 1 to 7 of serve1.detect.  The blocks are independent ifs whose   *)
(* tests compare the lower-cased dataset name with seven distinct names,   *)
(* so at most one of them (for a POS record blocks 2 and 4) runs.          *)
Serve1Blocks(st, event) ==
    LET dataset == Lower(DictGet(event, "dataset", <<>>))
        ev == event.event
        status == DictGet(ev, "status", None)
        station == DictGet(ev, "station_id", "UNKNOWN")
        cust == DictGet(ev, "customer_id", "UNKNOWN")
    IN  IF dataset = Serve1Names.rfid /\ status = "Active"
        THEN {IF TruthyStr(ev.data, "sku")
              THEN [st EXCEPT !.seen_rfids =
                       DictPut(@, cust, DictGet(@, cust, {}) \cup {Field(ev.data, "sku")})]
              ELSE st}
        ELSE IF dataset = Serve1Names.pos
        THEN Serve1Pos(st, ev, station, cust, status)
        ELSE IF dataset = Serve1Names.recognition /\ status = "Active"
        THEN Serve1Recognition(st, ev, station, cust)
        ELSE IF dataset = Serve1Names.queue /\ status = "Active"
        THEN {Serve1Queue(st, ev, station, cust)}
        ELSE IF dataset = Serve1Names.inventory /\ status = "Active"
        THEN {Serve1Inventory(st, DictGet(ev, "data", EmptyData), 1)}
        ELSE IF dataset = Serve1Names.staffing /\ status = "Active"
        THEN {ProcessStaffing(st, ev, station)}
        ELSE IF dataset = Serve1Names.checkout /\ status = "Active"
        THEN {ProcessCheckoutAction(st, ev, station)}
        ELSE {st}

(* serve1.detect: the blocks, then block 8, whose text is that of          *)
(* _check_scanner_avoidance                                                *)
Serve1Detect(st, event) ==
    UNION {IF handled.raised THEN {handled}
           ELSE CheckScannerAvoidance(handled,
                                      DictGet(event.event, "station_id", "UNKNOWN")) :
           handled \in Serve1Blocks(st, event)}

(* The records both programs read: serve1's dataset names, customer_id at  *)
(* event level.                                                            *)
ReferenceRecords ==
    {Record(Serve1Names.rfid, "Active", "SCC1", c, << <<"sku", sku>> >>) :
        c \in Customers, sku \in SKUs}
    \cup
    {Record(Serve1Names.pos, "Active", "SCC1", c, sku \o wp) :
        c \in Customers, sku \in Opt("sku", SKUs),
        wp \in {<<>>, << <<"weight_g", 680>>, <<"price", 425>> >>}}
    \cup
    {Record(Serve1Names.pos, "System Crash", "SCC1", "C001", data) :
        data \in {<<>>, << <<"sku", "PRD_F_03">>, <<"weight_g", 680>>, <<"price", 425>> >>}}
    \cup
    {Record(Serve1Names.recognition, "Active", "SCC1", c,
            << <<"predicted_product", sku>> >>) : c \in Customers, sku \in SKUs}
    \cup
    {Record(Serve1Names.queue, "Active", "SCC1", "C015",
            << <<"customer_count", count>>, <<"average_dwell_time", dwell>> >>) :
        count \in {5, 6}, dwell \in {299, 300}}
    \cup
    {Record(Serve1Names.inventory, "Active", "WAREHOUSE", "C001", data) :
        data \in InventoryData}
    \cup
    {Record(Serve1Names.staffing, "Active", "SCC1", "C001",
            << <<"Staff_type", "Cashier">> >>),
     Record(Serve1Names.checkout, "Active", "SCC1", "C001", << <<"Action", "Close">> >>)}

EventData(events) == [i \in DOMAIN events |-> events[i].event_data]

(* one record of the stream handed to SentinelDetector.detect and to        *)
(* serve1.detect; the orders in which the two processes iterate their sets *)
(* are independent of each other                                           *)
DetectBoth ==
    /\ ncalls < MaxReferenceCalls
    /\ \E streaming_event \in ReferenceRecords :
         \E st \in DetectOutcomes(Current, streaming_event),
            ref \in Serve1Detect([serve1 EXCEPT !.written = <<>>], streaming_event) :
            /\ Commit(st, [op |-> "detect", streaming_event |-> streaming_event])
            /\ serve1' = ref
            /\ files' = [detector |-> files.detector \o EventData(st.written),
                         serve1 |-> files.serve1 \o EventData(ref.written)]
    /\ UNCHANGED <<anomaly_vars, client_vars, tool_vars>>

NextReference == DetectBoth

SpecReference == Init /\ [][NextReference]_vars

----------------------------------------------------------------------------
(* src/src/backend/anomaly_detector.py: the event cache and the session    *)
(* tracker of class AnomalyDetector.  A timestamp is an ISO string; it is  *)
(* kept as the minute and second it spells, and datetime.fromisoformat     *)
(* turns it into seconds.  Station and customer ids are kept as the parts  *)
(* that "_" separates ("SCC_1" is <<"SCC", "1">>), so that the session key *)
(* f"{station_id}_{customer_id}" is the concatenation of the two.  The     *)
(* inner dictionary event_cache[station] is iterated by the query, so it   *)
(* is a sequence of <<dataset, events>> pairs in insertion order.          *)
MaxCacheCalls == 3
MaxSessionCalls == 3

CacheHorizonSeconds == 60
SessionTimeout == 300
CorrelationWindow == 30

FromIsoFormat(timestamp) == 60 * timestamp.min + timestamp.sec

IsoFormat(seconds) == [min |-> seconds \div 60, sec |-> seconds % 60]

DataPut(data, k, v) ==
    IF Has(data, k)
    THEN [i \in DOMAIN data |-> IF data[i][1] = k THEN <<k, v>> ELSE data[i]]
    ELSE Append(data, <<k, v>>)

SessionKey(station_id, customer_id) == station_id \o customer_id

CleanupExpiredSessions(tracker, current_time) ==
    LET timeout_threshold == current_time - SessionTimeout
        expired_sessions ==
            {session_key \in DOMAIN tracker :
                FromIsoFormat(tracker[session_key].last_activity) < timeout_threshold}
    IN  [session_key \in (DOMAIN tracker) \ expired_sessions |-> tracker[session_key]]

UpdateSessionTracking(tracker, station_id, dataset, event, timestamp) ==
    LET data == DictGet(event, "data", EmptyData)
    IN  IF Has(data, "customer_id") /\ Field(data, "customer_id") # <<>>
        THEN LET customer_id == Field(data, "customer_id")
                 session_key == SessionKey(station_id, customer_id)
                 session == IF session_key \in DOMAIN tracker
                            THEN tracker[session_key]
                            ELSE [customer_id |-> customer_id,
                                  station_id |-> station_id,
                                  start_time |-> timestamp,
                                  last_activity |-> timestamp,
                                  events |-> <<>>,
                                  status |-> "active"]
                 updated == [session EXCEPT
                               !.last_activity = timestamp,
                               !.events = Append(@, [dataset |-> dataset,
                                                     timestamp |-> timestamp,
                                                     data |-> event])]
             IN  CleanupExpiredSessions(DictPut(tracker, session_key, updated),
                                        FromIsoFormat(timestamp))
        ELSE tracker

(* A faulty variant of the pruning of _cache_event that keeps an entry     *)
(* exactly 60 seconds old (>= instead of >); property C13 rejects it.      *)
CachedAfterInsertKeepsHorizon(events, station_id, dataset, event, timestamp) ==
    LET cutoff_time == FromIsoFormat(timestamp) - CacheHorizonSeconds
        enriched_event == [timestamp |-> timestamp, dataset |-> dataset,
                           station_id |-> station_id, data |-> event,
                           processed |-> FALSE]
        IsRecent(e) == FromIsoFormat(e.timestamp) >= cutoff_time
    IN  SelectSeq(Append(events, enriched_event), IsRecent)

(* the list event_cache[station_id][dataset] after _cache_event            *)
CachedAfterInsert(events, station_id, dataset, event, timestamp) ==
    LET cutoff_time == FromIsoFormat(timestamp) - CacheHorizonSeconds
        enriched_event == [timestamp |-> timestamp, dataset |-> dataset,
                           station_id |-> station_id, data |-> event,
                           processed |-> FALSE]
        IsRecent(e) == FromIsoFormat(e.timestamp) > cutoff_time
    IN  SelectSeq(Append(events, enriched_event), IsRecent)

(* ad is the pair of the detector's two stores                             *)
CacheEvent(ad, station_id, dataset, event, timestamp) ==
    LET of_station == DictGet(ad.event_cache, station_id, <<>>)
        events == IF Has(of_station, dataset) THEN Field(of_station, dataset) ELSE <<>>
    IN  [event_cache |->
            DictPut(ad.event_cache, station_id,
                    DataPut(of_station, dataset,
                            CachedAfterInsert(events, station_id, dataset, event,
                                              timestamp))),
         session_tracker |->
            UpdateSessionTracking(ad.session_tracker, station_id, dataset, event,
                                  timestamp)]

CorrelationKeys ==
    [pos_transactions    |-> Serve1Names.pos,
     rfid_readings       |-> <<"r","f","i","d","_","r","e","a","d","i","n","g","s">>,
     product_recognition |-> Serve1Names.recognition,
     queue_monitoring    |-> <<"q","u","e","u","e","_","m","o","n","i","t","o","r",
                               "i","n","g">>,
     inventory_snapshots |-> D_inventory]

D_current_inventory ==
    <<"C","u","r","r","e","n","t","_","i","n","v","e","n","t","o","r","y","_",
      "d","a","t","a">>

DatasetMapping ==
    (D_pos :> CorrelationKeys.pos_transactions)
    @@ (D_rfid :> CorrelationKeys.rfid_readings)
    @@ (D_recognition :> CorrelationKeys.product_recognition)
    @@ (D_queue :> CorrelationKeys.queue_monitoring)
    @@ (D_current_inventory :> CorrelationKeys.inventory_snapshots)

(* A faulty variant of the query whose window excludes its lower bound;    *)
(* property C14 rejects it.                                                *)
RECURSIVE CorrelateFromOpenWindow(_, _, _, _, _)
CorrelateFromOpenWindow(correlated_events, of_station, i, window_start, window_end) ==
    IF i > Len(of_station) THEN correlated_events
    ELSE LET dataset == of_station[i][1]
             correlation_key == IF dataset \in DOMAIN DatasetMapping
                                THEN DatasetMapping[dataset] ELSE Lower(dataset)
             InWindow(e) == /\ window_start < FromIsoFormat(e.timestamp)
                            /\ FromIsoFormat(e.timestamp) <= window_end
             found == SelectSeq(of_station[i][2], InWindow)
         IN  CorrelateFromOpenWindow(
                 IF correlation_key \in DOMAIN correlated_events
                 THEN [correlated_events EXCEPT ![correlation_key] = @ \o found]
                 ELSE correlated_events,
                 of_station, i + 1, window_start, window_end)

(* the loop over event_cache[station_id].items(), from pair i on           *)
RECURSIVE CorrelateFrom(_, _, _, _, _)
CorrelateFrom(correlated_events, of_station, i, window_start, window_end) ==
    IF i > Len(of_station) THEN correlated_events
    ELSE LET dataset == of_station[i][1]
             correlation_key == IF dataset \in DOMAIN DatasetMapping
                                THEN DatasetMapping[dataset] ELSE Lower(dataset)
             InWindow(e) == /\ window_start <= FromIsoFormat(e.timestamp)
                            /\ FromIsoFormat(e.timestamp) <= window_end
             found == SelectSeq(of_station[i][2], InWindow)
         IN  CorrelateFrom(IF correlation_key \in DOMAIN correlated_events
                           THEN [correlated_events EXCEPT ![correlation_key] = @ \o found]
                           ELSE correlated_events,
                           of_station, i + 1, window_start, window_end)

(* window is <<>> for the default argument None and <<seconds>> otherwise  *)
GetCorrelatedEvents(cache, station_id, timestamp, window) ==
    LET window_seconds == IF window = <<>> THEN CorrelationWindow ELSE window[1]
        current_time == FromIsoFormat(timestamp)
        empty == [key \in {CorrelationKeys[n] : n \in DOMAIN CorrelationKeys} |-> <<>>]
    IN  CorrelateFrom(empty, DictGet(cache, station_id, <<>>), 1,
                      current_time - window_seconds, current_time + window_seconds)

(* The detection algorithms of process_event.  An anomaly event is kept    *)
(* as its timestamp and its event_data (event_name, station_id and the     *)
(* other attributes); its event_id is built from the wall clock and is not *)
(* kept.  A SKU is the sequence of its "_"-separated parts, so that        *)
(* sku.split('_')[1] is its second part.  No algorithm assigns a field of  *)
(* the detector.  The algorithms that are not defined here                 *)
(* (_detect_rfid_anomalies, _detect_queue_anomalies,                       *)
(* _detect_recognition_anomalies, and the scanner avoidance, weight fraud  *)
(* and inventory shrinkage correlations) return events of other names,     *)
(* which the result of the model leaves out.                               *)
WeightTolerancePercent == 15
RapidSeconds == 5
ClosestPosSeconds == 10
ShortSessionSeconds == 30

AnomalyEvent(timestamp, event_name, station_id, attrs) ==
    [timestamp |-> timestamp, event_name |-> event_name, station_id |-> station_id,
     attrs |-> attrs]

(* a / b: the quotient as the pair of its terms, or ZeroDivisionError      *)
Divide(a, b) ==
    IF b = 0 THEN [raised |-> TRUE, num |-> a, den |-> b]
    ELSE [raised |-> FALSE, num |-> a, den |-> b]

(* quotient > percent / 100                                                *)
ExceedsPercent(quotient, percent) == 100 * quotient.num > percent * quotient.den

(* DataProcessor.products_catalog, read from products_list.csv: one        *)
(* product with a weight and one whose weight is 0.                        *)
ProductsCatalog ==
    (<<"PRD", "F", "01">> :> [weight |-> 100]) @@ (<<"PRD", "S", "04">> :> [weight |-> 0])

SkuOf(data) == IF Has(data, "sku") THEN Field(data, "sku") ELSE <<>>

CustomerIdOf(data) == IF Has(data, "customer_id") THEN Field(data, "customer_id") ELSE <<>>

ExpectedWeightUsableOrZero(expected_weight) == expected_weight >= 0

ExpectedWeightUsable(expected_weight) == expected_weight > 0

(* _detect_pos_anomalies: the events it returns, or raised if it raises    *)
DetectPosAnomalies(station_id, pos_event, timestamp) ==
    LET data == DictGet(pos_event, "data", EmptyData)
        sku == SkuOf(data)
        weight == NumOr(data, "weight_g", 0)
        none == [raised |-> FALSE, events |-> <<>>]
    IN  IF sku = <<>> THEN none
        ELSE IF sku \in DOMAIN ProductsCatalog /\ weight > 0
        THEN LET expected_weight == ProductsCatalog[sku].weight
             IN  IF ExpectedWeightUsable(expected_weight)
                 THEN LET deviation == Divide(Abs(weight - expected_weight),
                                              expected_weight)
                      IN  IF deviation.raised THEN [raised |-> TRUE, events |-> <<>>]
                          ELSE IF ExceedsPercent(deviation, WeightTolerancePercent)
                          THEN [raised |-> FALSE,
                                events |-> <<AnomalyEvent(timestamp,
                                    "Weight Discrepancies", station_id,
                                    [customer_id |-> CustomerIdOf(data),
                                     product_sku |-> sku,
                                     expected_weight |-> expected_weight,
                                     actual_weight |-> weight])>>]
                          ELSE none
                 ELSE none
        ELSE none

(* _detect_system_correlation_issues                                       *)
DetectSystemCorrelationIssues(correlated_events, station_id, timestamp) ==
    LET pos_count == Len(correlated_events[CorrelationKeys.pos_transactions])
        rfid_count == Len(correlated_events[CorrelationKeys.rfid_readings])
        recognition_count == Len(correlated_events[CorrelationKeys.product_recognition])
        Ratio(count) == IF pos_count > 0 THEN Divide(count, pos_count) ELSE Divide(0, 1)
    IN  IF pos_count = 0 /\ rfid_count = 0 /\ recognition_count = 0
        THEN <<AnomalyEvent(timestamp, "System Crash", station_id,
                            [duration_seconds |-> 30])>>
        ELSE IF pos_count > 0
        THEN (IF 10 * rfid_count < pos_count * 8
              THEN <<AnomalyEvent(timestamp, "RFID Sensor Malfunction", station_id,
                                  [actual_ratio |-> Ratio(rfid_count)])>>
              ELSE <<>>)
             \o (IF 10 * recognition_count < pos_count * 9
                 THEN <<AnomalyEvent(timestamp, "Product Recognition System Failure",
                                     station_id,
                                     [actual_ratio |-> Ratio(recognition_count)])>>
                 ELSE <<>>)
        ELSE <<>>

RECURSIVE Concat(_)
Concat(lists) == IF lists = <<>> THEN <<>> ELSE Head(lists) \o Concat(Tail(lists))

(* the payload of a cached or session entry: entry['data']['data']         *)
PayloadOf(entry) == DictGet(entry.data, "data", EmptyData)

TimeDiff(a, b) == Abs(FromIsoFormat(a.timestamp) - FromIsoFormat(b.timestamp))

(* A faulty variant of the search that takes the first POS event within    *)
(* 10 seconds instead of the closest; property C29 rejects it.             *)
ClosestPosFirstInReach(pos_events, recognition_event) ==
    LET in_reach == {i \in DOMAIN pos_events :
                        TimeDiff(recognition_event, pos_events[i]) <= ClosestPosSeconds}
    IN  IF in_reach = {} THEN 0
        ELSE CHOOSE i \in in_reach : \A j \in in_reach : i <= j

(* The inner loop of _detect_barcode_switching_correlation: the index of   *)
(* closest_pos in pos_events, 0 for None.  The loop keeps the first of the *)
(* events at the least distance.                                           *)
ClosestPos(pos_events, recognition_event) ==
    LET in_reach == {i \in DOMAIN pos_events :
                        TimeDiff(recognition_event, pos_events[i]) <= ClosestPosSeconds}
        closest == {i \in in_reach :
                       \A j \in in_reach : TimeDiff(recognition_event, pos_events[i])
                                           <= TimeDiff(recognition_event, pos_events[j])}
    IN  IF in_reach = {} THEN 0
        ELSE CHOOSE i \in closest : \A j \in closest : i <= j

Category(sku) == IF Len(sku) > 1 THEN sku[2] ELSE "unknown"

(* _detect_barcode_switching_correlation                                   *)
DetectBarcodeSwitchingCorrelation(correlated_events, station_id, timestamp) ==
    LET recognition_events == correlated_events[CorrelationKeys.product_recognition]
        pos_events == correlated_events[CorrelationKeys.pos_transactions]
        Compared(recognition_event) ==
            LET recognition_data == PayloadOf(recognition_event)
                predicted_sku == IF Has(recognition_data, "predicted_product")
                                 THEN Field(recognition_data, "predicted_product")
                                 ELSE <<>>
                closest == ClosestPos(pos_events, recognition_event)
            IN  IF predicted_sku = <<>> \/ closest = 0 THEN <<>>
                ELSE LET closest_pos == pos_events[closest]
                         pos_sku == SkuOf(PayloadOf(closest_pos))
                     IN  IF /\ pos_sku # <<>>
                            /\ predicted_sku # pos_sku
                            /\ Category(predicted_sku) # Category(pos_sku)
                         THEN <<AnomalyEvent(timestamp, "Barcode Switching", station_id,
                                    [predicted_sku |-> predicted_sku,
                                     scanned_sku |-> pos_sku,
                                     time_difference |->
                                         TimeDiff(recognition_event, closest_pos)])>>
                         ELSE <<>>
    IN  Concat([i \in DOMAIN recognition_events |-> Compared(recognition_events[i])])

(* A faulty variant that leaves the transaction times in arrival order;    *)
(* property C25 rejects it.                                                *)
TransactionTimesUnsorted(pos_events) ==
    [i \in DOMAIN pos_events |-> FromIsoFormat(pos_events[i].timestamp)]

(* transaction_times after transaction_times.sort()                        *)
TransactionTimes(pos_events) ==
    SortSeq([i \in DOMAIN pos_events |-> FromIsoFormat(pos_events[i].timestamp)],
            LAMBDA a, b : a < b)

(* _analyze_single_session.  unscanned_products is list(set), a list in an *)
(* order the hash seed decides; it is kept as the set.                     *)
AnalyzeSingleSession(session) ==
    LET events == session.events
        IsPos(e) == e.dataset = D_pos
        IsRfid(e) == e.dataset = D_rfid
        pos_events == SelectSeq(events, IsPos)
        rfid_events == SelectSeq(events, IsRfid)
        transaction_times == TransactionTimes(pos_events)
        Rapid(i) ==
            LET time_diff == transaction_times[i] - transaction_times[i - 1]
            IN  IF time_diff < RapidSeconds
                THEN <<AnomalyEvent(IsoFormat(transaction_times[i]), "Rapid Transactions",
                                    session.station_id,
                                    [customer_id |-> session.customer_id,
                                     time_difference |-> time_diff])>>
                ELSE <<>>
        rapid == IF Len(pos_events) > 1
                 THEN Concat([k \in 1..(Len(transaction_times) - 1) |-> Rapid(k + 1)])
                 ELSE <<>>
        rfid_skus == {SkuOf(PayloadOf(rfid_events[i])) : i \in
                        {j \in DOMAIN rfid_events :
                            /\ SkuOf(PayloadOf(rfid_events[j])) # <<>>
                            /\ Has(PayloadOf(rfid_events[j]), "location")
                            /\ Field(PayloadOf(rfid_events[j]), "location")
                                  = "IN_SCAN_AREA"}}
        pos_skus == {SkuOf(PayloadOf(pos_events[i])) : i \in DOMAIN pos_events} \ {<<>>}
        unscanned_products == rfid_skus \ pos_skus
        mismatch == IF unscanned_products # {}
                    THEN <<AnomalyEvent(session.last_activity, "Session Product Mismatch",
                                        session.station_id,
                                        [customer_id |-> session.customer_id,
                                         unscanned_products |-> unscanned_products])>>
                    ELSE <<>>
        session_duration == FromIsoFormat(session.last_activity)
                            - FromIsoFormat(session.start_time)
        short == IF session_duration < ShortSessionSeconds /\ Len(pos_events) > 3
                 THEN <<AnomalyEvent(session.last_activity, "Suspicious Short Session",
                                     session.station_id,
                                     [customer_id |-> session.customer_id,
                                      session_duration |-> session_duration,
                                      items_count |-> Len(pos_events)])>>
                 ELSE <<>>
    IN  IF Len(events) < 2 THEN <<>> ELSE rapid \o mismatch \o short

(* analyze_customer_session_anomalies(customer_id): what the analysis of   *)
(* each session of the customer returns.  The lists are concatenated in    *)
(* the insertion order of session_tracker, which the model does not keep.  *)
AnalyzeCustomerSessionAnomalies(tracker, customer_id) ==
    [session_key \in {k \in DOMAIN tracker : tracker[k].customer_id = customer_id}
        |-> AnalyzeSingleSession(tracker[session_key])]

(* process_event returns at line 48 without touching the detector.         *)
SkipsOnlyWithoutTimestamp(event_data, station_id) == "timestamp" \notin DOMAIN event_data

Skips(event_data, station_id) ==
    station_id = <<>> \/ "timestamp" \notin DOMAIN event_data

(* Lines 53 to 72 of process_event, run on the detector ad that            *)
(* _cache_event has left: the list returned, as the events of the stream   *)
(* and correlation algorithms and those of the session analysis.           *)
ProcessEventResult(ad, event_data, station_id) ==
    LET event_content == event_data.event
        timestamp == event_data.timestamp
        of_pos == IF event_data.dataset = D_pos
                  THEN DetectPosAnomalies(station_id, event_content, timestamp)
                  ELSE [raised |-> FALSE, events |-> <<>>]
        correlated_events == GetCorrelatedEvents(ad.event_cache, station_id, timestamp,
                                                 <<>>)
        cross == DetectBarcodeSwitchingCorrelation(correlated_events, station_id,
                                                   timestamp)
                 \o DetectSystemCorrelationIssues(correlated_events, station_id,
                                                  timestamp)
        customer_id == CustomerIdOf(DictGet(event_content, "data", EmptyData))
    IN  IF of_pos.raised \/ \E i \in DOMAIN cross :
                               /\ "actual_ratio" \in DOMAIN cross[i].attrs
                               /\ cross[i].attrs.actual_ratio.raised
        THEN [raised |-> TRUE, detected |-> <<>>, session_anomalies |-> EmptyDict]
        ELSE [raised |-> FALSE,
              detected |-> of_pos.events \o cross,
              session_anomalies |->
                  IF customer_id # <<>>
                  THEN AnalyzeCustomerSessionAnomalies(ad.session_tracker, customer_id)
                  ELSE EmptyDict]

(* The records of the two AnomalyDetector streams.                         *)
Time(m, sec) == [min |-> m, sec |-> sec]

CacheRecords ==
    {[dataset |-> dataset, timestamp |-> t,
      event |-> [station_id |-> p, data |-> <<>>]] :
        dataset \in {D_pos, D_staffing},
        t \in {Time(0, 0), Time(0, 30), Time(1, 0), Time(1, 1)},
        p \in {<<"SCC1">>, <<"SCC2">>}}
    \cup {[dataset |-> D_pos, event |-> [station_id |-> <<"SCC1">>, data |-> <<>>]],
          [dataset |-> D_pos, timestamp |-> Time(0, 30), event |-> [data |-> <<>>]]}

SessionRecords ==
    {[dataset |-> D_pos, timestamp |-> t,
      event |-> [station_id |-> p, data |-> customer]] :
        t \in {Time(0, 0), Time(1, 0), Time(5, 0), Time(5, 1)},
        p \in {<<"SCC">>, <<"SCC", "1">>},
        customer \in Opt("customer_id", {<<"C001">>, <<"1", "C001">>})}

(* process_event(event_data).  The detection algorithms of lines 53 to 70  *)
(* read the two stores and assign nothing of the detector.                 *)
ProcessEvent(stream, max_calls) ==
    /\ ad_ncalls < max_calls
    /\ \E event_data \in stream :
         LET event_content == event_data.event
             station_id == DictGet(event_content, "station_id", <<>>)
             ad == [event_cache |-> event_cache, session_tracker |-> session_tracker]
             skipped == Skips(event_data, station_id)
             after == IF skipped
                      THEN ad
                      ELSE CacheEvent(ad, station_id, event_data.dataset, event_content,
                                      event_data.timestamp)
             result == IF skipped
                       THEN [raised |-> FALSE, detected |-> <<>>,
                             session_anomalies |-> EmptyDict]
                       ELSE ProcessEventResult(after, event_data, station_id)
         IN  /\ event_cache' = after.event_cache
             /\ session_tracker' = after.session_tracker
             /\ ad_call' = [op |-> "process_event", event_data |-> event_data,
                            result |-> result]
             /\ ad_returned' = Append(ad_returned, result)
    /\ ad_ncalls' = ad_ncalls + 1
    /\ UNCHANGED <<detector_vars, reference_vars, client_vars, tool_vars>>

(* _get_correlated_events(station_id, timestamp, window_seconds)           *)
CorrelatedEventsCall(max_calls) ==
    /\ ad_ncalls < max_calls
    /\ \E station_id \in {<<"SCC1">>, <<"SCC2">>}, timestamp \in {Time(0, 30), Time(1, 1)},
          window \in {<<>>, <<5>>} :
         ad_call' = [op |-> "_get_correlated_events", station_id |-> station_id,
                     timestamp |-> timestamp, window |-> window,
                     result |-> GetCorrelatedEvents(event_cache, station_id,
                                                    timestamp, window)]
    /\ ad_ncalls' = ad_ncalls + 1
    /\ UNCHANGED <<event_cache, session_tracker, ad_returned, detector_vars,
                   reference_vars, client_vars, tool_vars>>

NextCache ==
    \/ ProcessEvent(CacheRecords, MaxCacheCalls)
    \/ CorrelatedEventsCall(MaxCacheCalls)

NextSession == ProcessEvent(SessionRecords, MaxSessionCalls)

(* The stream of the session analysis: POS scans and RFID reads of one     *)
(* customer at two stations, seconds apart and past the session timeout.   *)
MaxAnalysisCalls == 3

AnalysisRecords ==
    {[dataset |-> dataset, timestamp |-> t,
      event |-> [station_id |-> p,
                 data |-> << <<"customer_id", <<"C001">> >>,
                             <<"sku", <<"PRD", "F", "01">> >>,
                             <<"location", "IN_SCAN_AREA">> >>]] :
        dataset \in {D_pos, D_rfid},
        t \in {Time(0, 0), Time(0, 4), Time(0, 9), Time(5, 10)},
        p \in {<<"SCC1">>, <<"SCC2">>}}

NextAnalysis == ProcessEvent(AnalysisRecords, MaxAnalysisCalls)

SpecAnalysis == Init /\ [][NextAnalysis]_vars

(* The stream of the checkout correlation: POS scans, with and without a   *)
(* measured weight, of the two catalog products, and product recognitions, *)
(* at one station and a few seconds apart.                                 *)
MaxCorrelationCalls == 3

CorrelationRecords ==
    {[dataset |-> D_pos, timestamp |-> t,
      event |-> [station_id |-> <<"SCC1">>, data |-> data]] :
        t \in {Time(0, 0), Time(0, 5), Time(0, 8), Time(0, 19)},
        data \in {<< <<"sku", <<"PRD", "F", "01">> >>, <<"weight_g", 116>> >>,
                  << <<"sku", <<"PRD", "F", "01">> >>, <<"weight_g", 0>> >>,
                  << <<"sku", <<"PRD", "S", "04">> >>, <<"weight_g", 116>> >>}}
    \cup
    {[dataset |-> D_recognition, timestamp |-> t,
      event |-> [station_id |-> <<"SCC1">>,
                 data |-> << <<"predicted_product", <<"PRD", "F", "02">> >> >>]] :
        t \in {Time(0, 0), Time(0, 5), Time(0, 8), Time(0, 19)}}

NextCorrelation == ProcessEvent(CorrelationRecords, MaxCorrelationCalls)

SpecCorrelation == Init /\ [][NextCorrelation]_vars

SpecCache == Init /\ [][NextCache]_vars

SpecSession == Init /\ [][NextSession]_vars

----------------------------------------------------------------------------
(* StreamingClient of src/src/backend/streaming_client.py.                 *)
(*                                                                         *)
(* connection and stream are "None", "open" or "closed"; an open and a     *)
(* closed object are both truthy in Python.  A stream whose server has     *)
(* closed the connection is "exhausted": it is still an open file object,  *)
(* and every further read of it gives the end of the stream again.  The    *)
(* server and the network                                                  *)
(* are the environment: each connect() succeeds or fails, and each read of *)
(* the stream gives a line holding an event, a blank line, a line that is  *)
(* not JSON, the end of the stream, or a connection error.  time.sleep is  *)
(* recorded as the slept flag of the step that makes it.  read_events is a *)
(* generator: gen is the place its code has reached.                       *)
Truthy(handle) == handle # "None"

(* connect(): both handles and retry_count are assigned on success only.   *)
Connect(c, ok) ==
    IF ok THEN [c EXCEPT !.connection = "open", !.stream = "open", !.retry_count = 0]
    ELSE c

Disconnect(c) ==
    [c EXCEPT !.is_running = FALSE,
              !.stream = IF Truthy(@) THEN "closed" ELSE @,
              !.connection = IF Truthy(@) THEN "closed" ELSE @]

(* get_connection_status(): host and port are fixed and left out.          *)
GetConnectionStatus(c) ==
    [connected |-> Truthy(c.connection) /\ Truthy(c.stream),
     running |-> c.is_running,
     retry_count |-> c.retry_count,
     max_retries |-> c.max_retries]

RetriesExhaustedLate(c) == c.retry_count > c.max_retries

RetriesExhausted(c) == c.retry_count >= c.max_retries

(* What one step of the iteration over the stream can meet.  A line is a   *)
(* JSON document ("event"), blank, text that json.loads rejects with       *)
(* JSONDecodeError ("not_json"), text on which json.loads raises another   *)
(* exception, such as RecursionError on deep nesting or ValueError on an   *)
(* integer of more than 4300 digits ("parser_error"), or bytes that are    *)
(* not UTF-8, on which the iteration itself raises UnicodeDecodeError      *)
(* ("undecodable").  "eof" and "reset" are the end of the stream and a     *)
(* connection error.                                                       *)
Lines == {"event", "blank", "not_json", "parser_error", "undecodable", "eof", "reset"}

MaxLines == 3

(* A client is constructed with a chosen max_retries.                      *)
Construct ==
    /\ gen = "unstarted"
    /\ cl_rec.op = "__init__"
    /\ \E m \in 0..MaxRetriesBound :
          /\ m # client.max_retries
          /\ client' = NewStreamingClient(m)
    /\ cl_rec' = [op |-> "__init__", outcome |-> "constructed", slept |-> FALSE]
    /\ UNCHANGED <<gen, connects, stop_requested, sent, yielded, detector_vars,
                   reference_vars, anomaly_vars, tool_vars>>

(* read_events() is called and the generator is started: line 60.          *)
ReadEvents ==
    /\ gen \in {"unstarted", "done"}
    /\ client' = [client EXCEPT !.is_running = TRUE]
    /\ gen' = "loop"
    /\ connects' = 0
    /\ stop_requested' = FALSE
    /\ cl_rec' = [op |-> "read_events", outcome |-> "started", slept |-> FALSE]
    /\ UNCHANGED <<sent, yielded, detector_vars, reference_vars, anomaly_vars, tool_vars>>

(* One pass through the head of the while loop: lines 62 to 72.            *)
ReadEventsLoop ==
    /\ gen = "loop"
    /\ IF ~client.is_running
       THEN /\ gen' = "done"
            /\ cl_rec' = [op |-> "loop", outcome |-> "not_running", slept |-> FALSE]
            /\ UNCHANGED <<client, connects, sent, yielded>>
       ELSE IF ~Truthy(client.connection) \/ ~Truthy(client.stream)
       THEN \E ok \in BOOLEAN :
               LET c == Connect(client, ok)
               IN  IF ok
                   THEN /\ client' = c
                        /\ gen' = "reading"
                        /\ connects' = 0
                        /\ sent' = <<>>
                        /\ yielded' = <<>>
                        /\ cl_rec' = [op |-> "loop", outcome |-> "connected",
                                      slept |-> FALSE]
                   ELSE IF RetriesExhausted(c)
                   THEN /\ client' = c
                        /\ gen' = "done"
                        /\ connects' = connects + 1
                        /\ cl_rec' = [op |-> "loop", outcome |-> "gave_up",
                                      slept |-> FALSE]
                        /\ UNCHANGED <<sent, yielded>>
                   ELSE /\ client' = [c EXCEPT !.retry_count = @ + 1]
                        /\ gen' = "loop"
                        /\ connects' = connects + 1
                        /\ cl_rec' = [op |-> "loop", outcome |-> "retry",
                                      slept |-> TRUE]
                        /\ UNCHANGED <<sent, yielded>>
       ELSE /\ gen' = "reading"
            /\ cl_rec' = [op |-> "loop", outcome |-> "kept_handles", slept |-> FALSE]
            /\ UNCHANGED <<client, connects, sent, yielded>>
    /\ UNCHANGED <<stop_requested, detector_vars, reference_vars, anomaly_vars, tool_vars>>

(* One step of "for line in self.stream" with its exception handlers:      *)
(* lines 75 to 98.  Reading a closed file raises ValueError, which the     *)
(* second handler takes; both handlers call disconnect() and sleep only    *)
(* if is_running is still true after it.                                   *)
ReadEventsLine ==
    /\ gen = "reading"
    /\ IF client.stream = "closed"
       THEN LET c == Disconnect(client)
            IN  /\ client' = c
                /\ gen' = "loop"
                /\ cl_rec' = [op |-> "read", outcome |-> "closed_file",
                              slept |-> c.is_running, line |-> "none"]
                /\ UNCHANGED <<sent, yielded>>
       ELSE IF client.stream = "exhausted"
       THEN /\ gen' = "loop"
            /\ cl_rec' = [op |-> "read", outcome |-> "eof", slept |-> FALSE,
                          line |-> "none"]
            /\ UNCHANGED <<client, sent, yielded>>
       ELSE \E line \in Lines :
               IF line = "reset"
               THEN LET c == Disconnect(client)
                    IN  /\ client' = c
                        /\ gen' = "loop"
                        /\ cl_rec' = [op |-> "read", outcome |-> "lost",
                                      slept |-> c.is_running, line |-> "none"]
                        /\ UNCHANGED <<sent, yielded>>
               ELSE IF line = "eof"
               THEN /\ client' = [client EXCEPT !.stream = "exhausted"]
                    /\ gen' = "loop"
                    /\ cl_rec' = [op |-> "read", outcome |-> "eof", slept |-> FALSE,
                                  line |-> "none"]
                    /\ UNCHANGED <<sent, yielded>>
               ELSE /\ Len(sent) < MaxLines
                    /\ sent' = Append(sent, line)
                    /\ IF line = "undecodable"
                       THEN LET c == Disconnect(client)
                            IN  /\ client' = c
                                /\ gen' = "loop"
                                /\ cl_rec' = [op |-> "read", outcome |-> "error",
                                              slept |-> c.is_running, line |-> line]
                                /\ UNCHANGED yielded
                       ELSE IF ~client.is_running
                       THEN /\ gen' = "loop"
                            /\ cl_rec' = [op |-> "read", outcome |-> "not_running",
                                          slept |-> FALSE, line |-> line]
                            /\ UNCHANGED <<client, yielded>>
                       ELSE IF line = "parser_error"
                       THEN LET c == Disconnect(client)
                            IN  /\ client' = c
                                /\ gen' = "loop"
                                /\ cl_rec' = [op |-> "read", outcome |-> "error",
                                              slept |-> c.is_running, line |-> line]
                                /\ UNCHANGED yielded
                       ELSE /\ gen' = "reading"
                            /\ yielded' = IF line = "event"
                                          THEN Append(yielded, Len(sent) + 1)
                                          ELSE yielded
                            /\ cl_rec' = [op |-> "read",
                                          outcome |-> IF line = "event" THEN "yielded"
                                                      ELSE "skipped",
                                          slept |-> FALSE, line |-> line]
                            /\ UNCHANGED client
    /\ UNCHANGED <<connects, stop_requested, detector_vars, reference_vars,
                   anomaly_vars, tool_vars>>

(* stop_streaming() called by the consumer of the generator.               *)
StopStreaming ==
    /\ gen \in {"loop", "reading"}
    /\ ~stop_requested
    /\ client' = Disconnect([client EXCEPT !.is_running = FALSE])
    /\ stop_requested' = TRUE
    /\ cl_rec' = [op |-> "stop_streaming", outcome |-> "stopped", slept |-> FALSE]
    /\ UNCHANGED <<gen, connects, sent, yielded, detector_vars, reference_vars,
                   anomaly_vars, tool_vars>>

(* The generator consumed by the thread that made it: no worker thread.   *)
NextClient ==
    \/ Construct /\ UNCHANGED <<worker, caller>>
    \/ ReadEvents /\ UNCHANGED <<worker, caller>>
    \/ ReadEventsLoop /\ UNCHANGED <<worker, caller>>
    \/ ReadEventsLine /\ UNCHANGED <<worker, caller>>
    \/ StopStreaming /\ UNCHANGED <<worker, caller>>

SpecClient == Init /\ [][NextClient]_vars

(* Between two yields the generator runs on its own: a pass of the while   *)
(* loop or a read of the stream that can be made is made.  Whether the     *)
(* consumer ever calls stop_streaming() is left open.                      *)
SpecClientLive ==
    /\ SpecClient
    /\ WF_vars(ReadEventsLoop /\ UNCHANGED <<worker, caller>>)
    /\ WF_vars(ReadEventsLine /\ UNCHANGED <<worker, caller>>)

----------------------------------------------------------------------------
(* start_streaming and stop_streaming: two threads on one StreamingClient. *)
(*                                                                         *)
(* The caller thread makes the worker thread and later calls               *)
(* stop_streaming; the worker runs stream_worker, which pulls events from  *)
(* read_events and hands them to event_handler.  No lock protects the      *)
(* fields of the client, so a step of one thread can fall between any two  *)
(* steps of the other.  worker.pc is the place the worker has reached:     *)
(* "started" (thread made, read_events not yet entered), "next" (inside    *)
(* the generator), "yielded" (an event in hand, before the test of line    *)
(* 105), "checked" (after the test, before event_handler is called),       *)
(* "exited".  worker.handled holds, for each event_handler call, the       *)
(* position in sent of the line it was given.                              *)

(* start_streaming(event_handler): lines 111 to 113.                       *)
StartStreaming ==
    /\ worker.pc = "unstarted"
    /\ caller.pc = "idle"
    /\ worker' = [worker EXCEPT !.pc = "started"]
    /\ UNCHANGED <<client, gen, connects, stop_requested, cl_rec, sent, yielded,
                   caller, detector_vars, reference_vars, anomaly_vars, tool_vars>>

(* The worker inside next() of the generator: line 104.  The first next()  *)
(* enters read_events and runs line 60; the generator then runs until it   *)
(* yields an event or returns.                                             *)
WorkerNext ==
    /\ worker.pc \in {"started", "next"}
    /\ IF worker.pc = "started" THEN ReadEvents
       ELSE ReadEventsLoop \/ ReadEventsLine
    /\ worker' = [worker EXCEPT !.pc =
                     IF cl_rec'.outcome = "yielded" THEN "yielded"
                     ELSE IF gen' = "done" THEN "exited"
                     ELSE "next"]
    /\ UNCHANGED caller

(* A faulty variant of the test of line 105 that always passes; property   *)
(* C36 rejects it.                                                         *)
WorkerCheckAlwaysPasses ==
    /\ worker.pc = "yielded"
    /\ worker' = [worker EXCEPT !.pc = "checked"]
    /\ UNCHANGED <<client, gen, connects, stop_requested, cl_rec, sent, yielded,
                   caller, detector_vars, reference_vars, anomaly_vars, tool_vars>>

(* "if not self.is_running: break": lines 105 and 106.                     *)
WorkerCheck ==
    /\ worker.pc = "yielded"
    /\ worker' = [worker EXCEPT !.pc = IF client.is_running THEN "checked"
                                       ELSE "exited"]
    /\ UNCHANGED <<client, gen, connects, stop_requested, cl_rec, sent, yielded,
                   caller, detector_vars, reference_vars, anomaly_vars, tool_vars>>

(* event_handler(event): line 107.  A handler that raises ends the worker  *)
(* through the except of line 108.                                         *)
WorkerHandle ==
    /\ worker.pc = "checked"
    /\ \E returns \in BOOLEAN :
          worker' = [pc |-> IF returns THEN "next" ELSE "exited",
                     handled |-> Append(worker.handled, Len(sent))]
    /\ UNCHANGED <<client, gen, connects, stop_requested, cl_rec, sent, yielded,
                   caller, detector_vars, reference_vars, anomaly_vars, tool_vars>>

(* stop_streaming(), line 117: self.is_running = False.  The caller notes  *)
(* where the worker is and what it has handled and read so far.            *)
StopStreamingFlag ==
    /\ worker.pc # "unstarted"
    /\ caller.pc = "idle"
    /\ client' = [client EXCEPT !.is_running = FALSE]
    /\ stop_requested' = TRUE
    /\ caller' = [pc |-> "flag_set", worker_at_stop |-> worker.pc,
                  handled_at_stop |-> Len(worker.handled),
                  sent_at_stop |-> Len(sent)]
    /\ UNCHANGED <<gen, connects, cl_rec, sent, yielded, worker,
                   detector_vars, reference_vars, anomaly_vars, tool_vars>>

(* stop_streaming(), lines 118 to 121: disconnect(), then join(timeout=5), *)
(* which returns when the worker has exited or after five seconds.         *)
StopStreamingDisconnect ==
    /\ caller.pc = "flag_set"
    /\ client' = Disconnect(client)
    /\ caller' = [caller EXCEPT !.pc = "returned"]
    /\ UNCHANGED <<gen, connects, stop_requested, cl_rec, sent, yielded, worker,
                   detector_vars, reference_vars, anomaly_vars, tool_vars>>

NextWorker ==
    \/ StartStreaming
    \/ WorkerNext
    \/ WorkerCheck
    \/ WorkerHandle
    \/ StopStreamingFlag
    \/ StopStreamingDisconnect

SpecWorker == Init /\ [][NextWorker]_vars

(* Both threads are scheduled: a step a thread can make is made.  Whether  *)
(* and when the caller calls stop_streaming() is left open.                *)
SpecWorkerLive ==
    /\ SpecWorker
    /\ WF_vars(WorkerNext)
    /\ WF_vars(WorkerCheck)
    /\ WF_vars(WorkerHandle)
    /\ WF_vars(StopStreamingDisconnect)

----------------------------------------------------------------------------
(* EventGenerator of src/src/backend/event_generator.py.  An event of the  *)
(* collection is kept as its event_id; calls counts the calls made on the  *)
(* instance and is not a field of it.                                      *)
MaxGeneratorCalls == 4

(* add_event(event_data): the caller's event_id if there is one, else "E"  *)
(* and the counter before its increment, zero-padded to three digits.      *)
AddEvent(eg, event_data) ==
    [eg EXCEPT
        !.events = Append(@, [event_id |-> IF Has(event_data, "event_id")
                                           THEN Field(event_data, "event_id")
                                           ELSE FormatEventId(eg.event_counter)]),
        !.event_counter = @ + 1]

AddEventCall ==
    /\ event_generator.calls < MaxGeneratorCalls
    /\ \E event_data \in {<<>>, << <<"event_id", FormatEventId(2)>> >>,
                           << <<"event_id", FormatEventId(7)>> >>} :
          event_generator' = [AddEvent(event_generator, event_data)
                                 EXCEPT !.calls = @ + 1]
    /\ UNCHANGED <<demo, detector_vars, reference_vars, anomaly_vars, client_vars>>

(* generate_sample_events(): add_event of the events 'E001', 'E002' and    *)
(* 'E003', in this order.                                                  *)
GenerateSampleEvents ==
    /\ event_generator.calls < MaxGeneratorCalls
    /\ event_generator' =
          [AddEvent(AddEvent(AddEvent(event_generator,
                                      << <<"event_id", FormatEventId(1)>> >>),
                             << <<"event_id", FormatEventId(2)>> >>),
                    << <<"event_id", FormatEventId(3)>> >>)
              EXCEPT !.calls = @ + 1]
    /\ UNCHANGED <<demo, detector_vars, reference_vars, anomaly_vars, client_vars>>

ClearEvents ==
    /\ event_generator.calls < MaxGeneratorCalls
    /\ event_generator' = [events |-> <<>>, event_counter |-> 0,
                           calls |-> event_generator.calls + 1]
    /\ UNCHANGED <<demo, detector_vars, reference_vars, anomaly_vars, client_vars>>

NextGenerator ==
    \/ AddEventCall
    \/ GenerateSampleEvents
    \/ ClearEvents

SpecGenerator == Init /\ [][NextGenerator]_vars

----------------------------------------------------------------------------
(* StandaloneSentinelDemo.create_event of                                  *)
(* src/evidence/executables/run_standalone.py.  An event is kept as its    *)
(* event_id and priority; file is the lines of events.jsonl, to which      *)
(* write_event_to_file appends every event created.  The data of every     *)
(* call is {"station_id": "SCC1"}.                                         *)
AlertsKept == 50
EventsKept == 100

MaxDemoCalls == 101
MaxOtherPriority == 1

CreateEvent ==
    /\ demo.event_counter < MaxDemoCalls
    /\ \E priority \in {"info", "warning", "critical"} :
          \* at most MaxOtherPriority calls have a priority other than "warning"
          /\ priority # "warning" =>
                Cardinality({i \in DOMAIN demo.file :
                                demo.file[i].priority # "warning"}) < MaxOtherPriority
          /\ LET n == demo.event_counter + 1
                 event == [event_id |-> FormatEventId(n), priority |-> priority]
                 inserted == <<event>> \o demo.events
                 appended == Append(demo.alerts, event)
             IN  demo' =
                   [event_counter |-> n,
                    events |-> IF Len(inserted) > EventsKept
                               THEN SubSeq(inserted, 1, EventsKept) ELSE inserted,
                    total_events |-> n,
                    active_stations |-> IF \E i \in DOMAIN demo.active_stations :
                                              demo.active_stations[i] = "SCC1"
                                        THEN demo.active_stations
                                        ELSE Append(demo.active_stations, "SCC1"),
                    active_customers |-> demo.active_customers,
                    alerts |-> IF priority \in {"warning", "critical"}
                               THEN IF Len(appended) > AlertsKept
                                    THEN SubSeq(appended, 1, AlertsKept)
                                    ELSE appended
                               ELSE demo.alerts,
                    file |-> Append(demo.file, event)]
    /\ UNCHANGED <<event_generator, detector_vars, reference_vars, anomaly_vars,
                   client_vars>>

SpecDemo == Init /\ [][CreateEvent]_vars

----------------------------------------------------------------------------
(* Vocabulary of the properties.                                           *)
StatusOf(call) == DictGet(call.streaming_event.event, "status", None)

StationOf(call) == DictGet(call.streaming_event.event, "station_id", "UNKNOWN")

DataOf(call) == DictGet(call.streaming_event.event, "data", EmptyData)

(* the call is detect() of a record whose normalised dataset name contains token *)
IsDetectOf(call, token) ==
    /\ call.op = "detect"
    /\ Contains(NormalizeDataset(call.streaming_event.dataset), token)

IsRfidRead(call, c, s) ==
    /\ IsDetectOf(call, T_rfid)
    /\ StatusOf(call) = "Active"
    /\ CustomerOf(call.streaming_event.event) = c
    /\ TruthyStr(DataOf(call), "sku")
    /\ Field(DataOf(call), "sku") = s

IsPosScan(call, c, s) ==
    /\ IsDetectOf(call, T_pos)
    /\ CustomerOf(call.streaming_event.event) = c
    /\ TruthyStr(DataOf(call), "sku")
    /\ Field(DataOf(call), "sku") = s

(* the positions of the events of one name in a sequence of events         *)
Named(events, name) ==
    {i \in DOMAIN events : events[i].event_data.event_name = name}

SuccessesFor(events, c, s) ==
    {i \in Named(events, "Succes Operation") :
        /\ events[i].event_data.customer_id = c
        /\ events[i].event_data.product_sku = s}

AvoidancesFor(events, c) ==
    {i \in Named(events, "Scanner Avoidance") : events[i].event_data.customer_id = c}

Unscanned(c) == DictGet(seen_rfids, c, {}) \ DictGet(scanned_items, c, {})

RECURSIVE DigitsValue(_)
DigitsValue(ds) ==
    IF ds = <<>> THEN 0
    ELSE 10 * DigitsValue(SubSeq(ds, 1, Len(ds) - 1)) + ds[Len(ds)]

IdNumber(event_id) == DigitsValue(event_id.digits)

----------------------------------------------------------------------------
(* C1: from a fresh detector, an Active RFID record (c, p, s) followed by  *)
(* a POS record (not a crash) for the same c, p, s writes exactly one      *)
(* 'Succes Operation' for (c, s), and afterwards s is not unscanned for c. *)
C1_RfidThenPosWritesOneSuccess ==
    [][\A c \in Customers, s \in SKUs :
         (/\ ncalls = 1
          /\ IsRfidRead(rec, c, s)
          /\ IsPosScan(rec', c, s)
          /\ StatusOf(rec') # "System Crash"
          /\ StationOf(rec') = StationOf(rec))
         => /\ Cardinality(SuccessesFor(written, c, s))
                 + Cardinality(SuccessesFor(written', c, s)) = 1
            /\ s \notin Unscanned(c)']_vars

(* The states a sweep of this step starts from: detect() sweeps after its  *)
(* handler, _check_scanner_avoidance() sweeps the current state.           *)
SweptStates ==
    IF rec'.op = "detect" THEN Dispatch(Current, rec'.streaming_event)
    ELSE IF rec'.op = "_check_scanner_avoidance" THEN {Current}
    ELSE {}

(* C2: for every customer whose seen_rfids minus scanned_items is          *)
(* non-empty, the sweep writes exactly one 'Scanner Avoidance' per SKU of  *)
(* the difference and empties seen_rfids of that customer entirely, so     *)
(* that nothing is unscanned afterwards; a sweep without a new RFID read   *)
(* for the customer writes nothing for it.                                 *)
C2_SweepReportsEachUnscannedSkuOnceAndClears ==
    [][/\ \A mid \in SweptStates : \A c \in DOMAIN mid.seen_rfids :
            LET missing == Missing(mid, c)
                reported == AvoidancesFor(written', c)
            IN  /\ {written'[i].event_data.product_sku : i \in reported} = missing
                /\ Cardinality(reported) = Cardinality(missing)
                /\ missing # {} => seen_rfids'[c] = {}
                /\ Unscanned(c)' = {}
       /\ \A c \in Customers :
            AvoidancesFor(written', c) # {} => \E s \in SKUs : IsRfidRead(rec', c, s)
      ]_vars

(* an RFID read of PRD_S_04 was reported and the sweep also dropped what   *)
(* the customer had scanned                                                *)
C2_Witness ==
    \E c \in Customers :
        /\ IsRfidRead(rec, c, "PRD_S_04")
        /\ \E i \in AvoidancesFor(written, c) :
              written[i].event_data.product_sku = "PRD_S_04"
        /\ "PRD_F_03" \in DictGet(scanned_items, c, {})
        /\ seen_rfids[c] = {}

(* C3: the event_id values of the written events are strictly increasing   *)
(* in write order, consecutive, and never reused, whatever sequence of     *)
(* detect, write_event and reset_state calls is made.                      *)
C3_EventIdsIncreaseWithoutGapOrReuse ==
    /\ \A i \in 1..(Len(output_log) - 1) :
          IdNumber(output_log[i + 1].event_id) = IdNumber(output_log[i].event_id) + 1
    /\ \A i, j \in DOMAIN output_log :
          i # j => output_log[i].event_id # output_log[j].event_id

(* C4: a 'Succes Operation' for (c, s) is written by a POS scan of s for c *)
(* that finds s in seen_rfids[c] and removes it; only an Active RFID read  *)
(* of s for c puts s back.  Hence the same POS record processed again,     *)
(* with no RFID read of s for c in between, writes no further 'Succes      *)
(* Operation'.                                                             *)
C4_ConsumedMatchGivesNoSecondSuccess ==
    [][\A c \in Customers, s \in SKUs :
         /\ SuccessesFor(written', c, s) # {} =>
               /\ IsPosScan(rec', c, s)
               /\ Cardinality(SuccessesFor(written', c, s)) = 1
               /\ s \in DictGet(seen_rfids, c, {})
               /\ s \notin DictGet(seen_rfids', c, {})
         /\ (s \notin DictGet(seen_rfids, c, {}) /\ s \in DictGet(seen_rfids', c, {}))
               => IsRfidRead(rec', c, s)
         /\ (rec' = rec /\ IsPosScan(rec, c, s) /\ SuccessesFor(written, c, s) # {})
               => SuccessesFor(written', c, s) = {}
      ]_vars

(* POS, RFID read, POS (the one 'Succes Operation' of the file), and the   *)
(* same POS record once more, which wrote nothing                          *)
C4_Witness ==
    \E c \in Customers, s \in SKUs :
        /\ ncalls = 4
        /\ IsPosScan(rec, c, s)
        /\ written = <<>>
        /\ Len(output_log) = 1
        /\ output_log[1].event_name = "Succes Operation"
        /\ DOMAIN scanned_items = {c}
        /\ scanned_items[c] = {s}
        /\ s \notin DictGet(seen_rfids, c, {})

(* C5: every POS record that is not a crash and has |weight_g - price| > 50 *)
(* writes a 'Weight Discrepancies' event (expected = price, actual =       *)
(* weight_g), whether or not it also produced a 'Succes Operation'; with   *)
(* |weight_g - price| <= 50 it writes none.                                *)
C5_WeightDiscrepancyWheneverDeviationOver50 ==
    [][(/\ IsDetectOf(rec', T_pos)
        /\ StatusOf(rec') # "System Crash"
        /\ Has(DataOf(rec'), "weight_g")
        /\ Has(DataOf(rec'), "price"))
       => LET weight_g == Field(DataOf(rec'), "weight_g")
              price == Field(DataOf(rec'), "price")
          IN  IF Abs(weight_g - price) > 50
              THEN \E i \in Named(written', "Weight Discrepancies") :
                      /\ written'[i].event_data.expected_weight = price
                      /\ written'[i].event_data.actual_weight = weight_g
              ELSE Named(written', "Weight Discrepancies") = {}
      ]_vars

(* C6: an Active queue record with customer_count >= 6 writes both a 'Long *)
(* Queue Length' and a derived 'Staffing Needs' event; with customer_count *)
(* <= 5 it writes neither.                                                 *)
C6_LongQueueAlsoWritesStaffingNeeds ==
    [][(/\ IsDetectOf(rec', T_queue)
        /\ StatusOf(rec') = "Active"
        /\ Has(DataOf(rec'), "customer_count"))
       => IF Field(DataOf(rec'), "customer_count") >= 6
          THEN /\ Named(written', "Long Queue Length") # {}
               /\ Named(written', "Staffing Needs") # {}
          ELSE /\ Named(written', "Long Queue Length") = {}
               /\ Named(written', "Staffing Needs") = {}
      ]_vars

(* C7: an Active queue record with average_dwell_time >= 300 writes a      *)
(* 'Long Wait Time' event for every value of customer_count.               *)
C7_LongWaitIndependentOfQueueLength ==
    [][(/\ IsDetectOf(rec', T_queue)
        /\ StatusOf(rec') = "Active"
        /\ Has(DataOf(rec'), "average_dwell_time")
        /\ Field(DataOf(rec'), "average_dwell_time") >= 300)
       => Named(written', "Long Wait Time") # {}
      ]_vars

(* C8: an Active inventory record with one (sku, qty) pair writes one      *)
(* 'Inventory Discrepancy' {Expected_Inventory = stored value,             *)
(* Actual_Inventory = qty} exactly when a stored value for the SKU exists  *)
(* and differs from qty; otherwise it writes none.  Either way qty is the  *)
(* stored value afterwards.                                                *)
C8_SingleSkuInventoryDiscrepancy ==
    [][(/\ IsDetectOf(rec', T_inventory)
        /\ StatusOf(rec') = "Active"
        /\ Len(DataOf(rec')) = 1)
       => LET sku == DataOf(rec')[1][1]
              qty == DataOf(rec')[1][2]
              reported == Named(written', "Inventory Discrepancy")
          IN  /\ IF sku \in DOMAIN inventory_snapshot /\ inventory_snapshot[sku] # qty
                 THEN /\ Cardinality(reported) = 1
                      /\ \A i \in reported :
                            /\ written'[i].event_data.SKU = sku
                            /\ written'[i].event_data.Expected_Inventory
                                  = inventory_snapshot[sku]
                            /\ written'[i].event_data.Actual_Inventory = qty
                 ELSE reported = {}
              /\ sku \in DOMAIN inventory_snapshot'
              /\ inventory_snapshot'[sku] = qty
      ]_vars

(* the records {PRD_F_03: 120}, {PRD_F_03: 150}, {PRD_F_03: 150}: the file  *)
(* holds the one 'Inventory Discrepancy' of the second record and the      *)
(* third record wrote nothing                                              *)
C8_Witness ==
    /\ ncalls = 3
    /\ IsDetectOf(rec, T_inventory)
    /\ StatusOf(rec) = "Active"
    /\ DataOf(rec) = << <<"PRD_F_03", 150>> >>
    /\ written = <<>>
    /\ Len(output_log) = 1
    /\ output_log[1].event_name = "Inventory Discrepancy"
    /\ DOMAIN inventory_snapshot = {"PRD_F_03"}
    /\ inventory_snapshot["PRD_F_03"] = 150

(* C9: after an Active inventory record with any number of (sku, qty)      *)
(* pairs, inventory_snapshot[sku] = qty for every pair, and one 'Inventory *)
(* Discrepancy' has been written for each sku whose stored value differed. *)
C9_EveryPairStoredAndReported ==
    [][(IsDetectOf(rec', T_inventory) /\ StatusOf(rec') = "Active")
       => \A k \in DOMAIN DataOf(rec') :
            LET sku == DataOf(rec')[k][1]
                qty == DataOf(rec')[k][2]
            IN  /\ sku \in DOMAIN inventory_snapshot'
                /\ inventory_snapshot'[sku] = qty
                /\ (sku \in DOMAIN inventory_snapshot /\ inventory_snapshot[sku] # qty)
                      => Cardinality({i \in Named(written', "Inventory Discrepancy") :
                                         written'[i].event_data.SKU = sku}) = 1
      ]_vars

(* C10: a POS record with status 'System Crash' writes one 'Unexpected     *)
(* Systems Crash' event (duration_seconds 180), increments the event       *)
(* counter and changes nothing else: scanned_items, expected_weights and   *)
(* seen_rfids are unchanged.                                               *)
C10_CrashRecordOnlyWritesCrashEvent ==
    [][(IsDetectOf(rec', T_pos) /\ StatusOf(rec') = "System Crash")
       => /\ Len(written') = 1
          /\ written'[1].event_data =
                [event_name |-> "Unexpected Systems Crash",
                 station_id |-> StationOf(rec'),
                 duration_seconds |-> 180]
          /\ event_counter' = event_counter + 1
          /\ UNCHANGED <<scanned_items, expected_weights, seen_rfids,
                         inventory_snapshot>>
      ]_vars

(* C11: an Active product-recognition record for customer c, processed     *)
(* right after a POS scan of SKU s for c (so s is the SKU c scanned most   *)
(* recently), writes 'Barcode Switching' exactly when predicted_product is *)
(* present and differs from s, and the event's scanned_sku is s.           *)
C11_BarcodeSwitchingComparesMostRecentScan ==
    [][\A c \in Customers, s \in SKUs :
         (/\ IsPosScan(rec, c, s)
          /\ IsDetectOf(rec', T_recogni)
          /\ StatusOf(rec') = "Active"
          /\ CustomerOf(rec'.streaming_event.event) = c)
         => LET switched == Named(written', "Barcode Switching")
            IN  IF /\ TruthyStr(DataOf(rec'), "predicted_product")
                   /\ Field(DataOf(rec'), "predicted_product") # s
                THEN /\ Cardinality(switched) = 1
                     /\ \A i \in switched :
                           /\ written'[i].event_data.scanned_sku = s
                           /\ written'[i].event_data.actual_sku
                                 = Field(DataOf(rec'), "predicted_product")
                ELSE switched = {}
      ]_vars

(* C12: for every sequence of records that uses serve1's dataset names and *)
(* carries customer_id at event level, the sequence of (event_name,        *)
(* attributes) written by SentinelDetector.detect equals the sequence      *)
(* written by serve1.detect.                                               *)
C12_DetectorWritesWhatServe1Writes == files.detector = files.serve1

----------------------------------------------------------------------------
(* Vocabulary of the AnomalyDetector properties.                           *)
Holds(events, e) == \E i \in DOMAIN events : events[i] = e

(* the entries of any stream kind that a query result holds                *)
Returned(result, e) == \E key \in DOMAIN result : Holds(result[key], e)

IsProcessEvent(call) ==
    /\ call.op = "process_event"
    /\ "timestamp" \in DOMAIN call.event_data
    /\ DictGet(call.event_data.event, "station_id", <<>>) # <<>>

SessionsOf(tracker, station_id, customer_id) ==
    {session_key \in DOMAIN tracker :
        /\ tracker[session_key].station_id = station_id
        /\ tracker[session_key].customer_id = customer_id}

(* C13: no cached sequence event_cache[station][dataset] holds an entry    *)
(* whose timestamp is 60 seconds or more older than the timestamp of the   *)
(* entry most recently inserted into that sequence (its last entry).       *)
C13_CacheHoldsNothingOlderThanHorizon ==
    \A station_id \in DOMAIN event_cache :
        \A i \in DOMAIN event_cache[station_id] :
            LET events == event_cache[station_id][i][2]
            IN  \A j \in DOMAIN events :
                   FromIsoFormat(events[Len(events)].timestamp)
                      - FromIsoFormat(events[j].timestamp) < 60

(* three inserts for SCC1 / POS_Transactions at 0:00, 0:30 and 1:01 leave  *)
(* the entries of 0:30 and 1:01                                            *)
C13_Witness ==
    /\ ad_ncalls = 3
    /\ ad_call.op = "process_event"
    /\ DOMAIN event_cache = {<<"SCC1">>}
    /\ Len(event_cache[<<"SCC1">>]) = 1
    /\ event_cache[<<"SCC1">>][1][1] = D_pos
    /\ [j \in 1..Len(event_cache[<<"SCC1">>][1][2]) |->
           event_cache[<<"SCC1">>][1][2][j].timestamp] = <<Time(0, 30), Time(1, 1)>>

C15_QueryReturnsEveryKindInClosedWindow ==
    [][ad_call'.op = "_get_correlated_events"
       => LET result == ad_call'.result
              station_id == ad_call'.station_id
              T == FromIsoFormat(ad_call'.timestamp)
              W == IF ad_call'.window = <<>> THEN 30 ELSE ad_call'.window[1]
              InWindow(e) == T - W <= FromIsoFormat(e.timestamp)
                             /\ FromIsoFormat(e.timestamp) <= T + W
              of_station == DictGet(event_cache, station_id, <<>>)
          IN  /\ event_cache' = event_cache
              /\ \A key \in DOMAIN result : \A j \in DOMAIN result[key] :
                    result[key][j].station_id = station_id
              /\ \A i \in DOMAIN of_station :
                    LET OfKind(e) == e.dataset = of_station[i][1]
                    IN  \E key \in DOMAIN result :
                           SelectSeq(result[key], OfKind)
                              = SelectSeq(of_station[i][2], InWindow)
      ]_vars

(* C16: the first record carrying customer c at station p creates session  *)
(* (p, c) with start_time = last_activity = the record's timestamp and the *)
(* record as its only event; a later record for (p, c), processed while    *)
(* the session exists, sets last_activity, appends the record and keeps    *)
(* start_time.                                                             *)
C16_SessionPerStationAndCustomer ==
    [][(/\ IsProcessEvent(ad_call')
        /\ TruthyStr(ad_call'.event_data.event.data, "customer_id"))
       => LET event == ad_call'.event_data.event
              timestamp == ad_call'.event_data.timestamp
              before == SessionsOf(session_tracker, event.station_id,
                                   Field(event.data, "customer_id"))
              after == SessionsOf(session_tracker', event.station_id,
                                  Field(event.data, "customer_id"))
              entry == [dataset |-> ad_call'.event_data.dataset,
                        timestamp |-> timestamp, data |-> event]
          IN  /\ Cardinality(after) = 1
              /\ \A key \in after :
                    /\ session_tracker'[key].last_activity = timestamp
                    /\ IF before = {}
                       THEN /\ session_tracker'[key].start_time = timestamp
                            /\ session_tracker'[key].events = <<entry>>
                       ELSE \A old \in before :
                            /\ session_tracker'[key].start_time
                                  = session_tracker[old].start_time
                            /\ session_tracker'[key].events
                                  = Append(session_tracker[old].events, entry)
      ]_vars

(* C17: after process_event has handled a record of timestamp T, with or   *)
(* without customer_id, no session has T - last_activity > 300, and no     *)
(* session whose last_activity is within 300 s of T has been removed.      *)
C17_NoExpiredSessionAfterAnyRecord ==
    [][IsProcessEvent(ad_call')
       => LET T == FromIsoFormat(ad_call'.event_data.timestamp)
          IN  /\ \A key \in DOMAIN session_tracker' :
                    T - FromIsoFormat(session_tracker'[key].last_activity) <= 300
              /\ \A key \in DOMAIN session_tracker :
                    T - FromIsoFormat(session_tracker[key].last_activity) <= 300
                    => key \in DOMAIN session_tracker'
      ]_vars

(* C18: when appending an event to the output file fails inside           *)
(* write_event, the error is swallowed: detect() returns normally and the  *)
(* detection state is the one the call leaves with a working file (the     *)
(* changes made are kept and the rest of the record is processed).         *)
C18_SinkFailureIsSwallowed ==
    [][(rec'.op = "detect" /\ "sink" \in DOMAIN rec')
       => /\ ~rec'.raised
          /\ \E ok \in DetectOutcomes(Current, rec'.streaming_event) :
                /\ seen_rfids' = ok.seen_rfids
                /\ scanned_items' = ok.scanned_items
                /\ expected_weights' = ok.expected_weights
                /\ inventory_snapshot' = ok.inventory_snapshot
      ]_vars

(* C19: a connection lost while read_events is reading is followed by a    *)
(* wait of reconnect_delay and a new connect(); the sequence ends only     *)
(* when the retries are exhausted, unless the consumer stopped the client. *)
C19_LostConnectionIsRetried ==
    /\ cl_rec.outcome = "lost" => (cl_rec.slept /\ client.is_running)
    /\ (gen = "done" /\ ~stop_requested) => RetriesExhausted(client)

(* C20: retry_count stays within 0..max_retries and is 0 after each        *)
(* successful connect(); a generator makes at most max_retries + 1 failed  *)
(* connect() calls in a row, and has ended once it has made that many.     *)
C20_BoundedConnectAttempts ==
    /\ client.retry_count \in 0..client.max_retries
    /\ cl_rec.outcome = "connected" => client.retry_count = 0
    /\ connects <= client.max_retries + 1
    /\ connects = client.max_retries + 1 => (gen = "done" /\ cl_rec.outcome = "gave_up")

C20_Witness ==
    /\ gen = "done"
    /\ cl_rec.outcome = "gave_up"
    /\ client.max_retries = MaxRetriesBound
    /\ connects = MaxRetriesBound + 1
    /\ client.retry_count = MaxRetriesBound

(* C21: a line read by read_events that is blank or is not parsable JSON   *)
(* is skipped and the generator goes on reading; the lines yielded are the *)
(* well-formed lines read from the connection, each once, in their order.  *)
WellFormedPositions(lines) ==
    SelectSeq([i \in 1..Len(lines) |-> i], LAMBDA i : lines[i] = "event")

C21_MalformedLinesAreSkipped ==
    /\ yielded = WellFormedPositions(sent)
    /\ (cl_rec.op = "read" /\ cl_rec.line \in {"blank", "not_json", "parser_error",
                                                "undecodable"})
       => (gen = "reading" /\ client.is_running)

(* C22: a generator started on a client whose earlier generator has ended  *)
(* calls connect() in its first pass through the loop.                     *)
C22_RestartConnectsAgain ==
    [][(cl_rec.op = "read_events" /\ client.is_running /\ cl_rec'.op = "loop")
       => cl_rec'.outcome \in {"connected", "retry", "gave_up"}]_vars

(* Vocabulary of the properties of process_event's result.                 *)
Reports(events, event_name) ==
    \E i \in DOMAIN events : events[i].event_name = event_name

(* C23: process_event returns a 'System Crash' event for a station only    *)
(* when the cache of that station holds no event of any stream kind within *)
(* the correlation window of the record; the record, cached before the     *)
(* correlation, is such an event, whatever its stream kind.                *)
C23_SystemCrashOnlyWithoutActivity ==
    [][(IsProcessEvent(ad_call') /\ Reports(ad_call'.result.detected, "System Crash"))
       => LET station_id == ad_call'.event_data.event.station_id
              T == FromIsoFormat(ad_call'.event_data.timestamp)
              of_station == event_cache'[station_id]
          IN  \A i \in DOMAIN of_station :
                 \A j \in DOMAIN of_station[i][2] :
                    Abs(FromIsoFormat(of_station[i][2][j].timestamp) - T)
                       > CorrelationWindow
      ]_vars

(* the SKUs a session has seen by RFID in the scan area and not at POS     *)
SessionUnscanned(session) ==
    LET Skus(dataset) ==
            {SkuOf(PayloadOf(session.events[i])) : i \in
                {j \in DOMAIN session.events : session.events[j].dataset = dataset}}
    IN  Skus(D_rfid) \ Skus(D_pos)

(* the events of the session analysis that the calls so far have returned  *)
SessionFindings(returned) ==
    UNION {UNION {{<<n, key, i>> : i \in DOMAIN returned[n].session_anomalies[key]} :
                     key \in DOMAIN returned[n].session_anomalies} :
              n \in DOMAIN returned}

FindingAt(returned, at) == returned[at[1]].session_anomalies[at[2]][at[3]]

(* C24: every session that is pruned by the expiry sweep while it has SKUs *)
(* seen by RFID and never scanned at POS has had a 'Session Product        *)
(* Mismatch' event returned for it by some process_event call.             *)
C24_MismatchReportedBeforeSessionEnds ==
    [][\A session_key \in (DOMAIN session_tracker) \ (DOMAIN session_tracker') :
          LET session == session_tracker[session_key]
          IN  SessionUnscanned(session) # {}
              => \E at \in SessionFindings(ad_returned') :
                    LET e == FindingAt(ad_returned', at)
                    IN  /\ e.event_name = "Session Product Mismatch"
                        /\ e.station_id = session.station_id
                        /\ e.attrs.customer_id = session.customer_id
      ]_vars

(* C25: the analysis of a session reports 'Rapid Transactions' exactly     *)
(* when the session holds two POS events less than 5 seconds apart, in     *)
(* whichever order they arrived.                                           *)
C25_RapidExactlyWhenTwoPosWithinFiveSeconds ==
    \A session_key \in DOMAIN session_tracker :
        LET events == session_tracker[session_key].events
        IN  Reports(AnalyzeSingleSession(session_tracker[session_key]),
                    "Rapid Transactions")
            <=> \E i, j \in DOMAIN events :
                   /\ i # j
                   /\ events[i].dataset = D_pos
                   /\ events[j].dataset = D_pos
                   /\ Abs(FromIsoFormat(events[i].timestamp)
                          - FromIsoFormat(events[j].timestamp)) < 5

C25_Witness ==
    \E session_key \in DOMAIN session_tracker :
        LET session == session_tracker[session_key]
        IN  /\ Len(session.events) = 3
            /\ \A i \in 1..3 : session.events[i].dataset = D_pos
            /\ session.events[1].timestamp = Time(0, 9)
            /\ session.events[2].timestamp = Time(0, 0)
            /\ session.events[3].timestamp = Time(0, 4)
            /\ IsProcessEvent(ad_call)
            /\ Reports(ad_call.result.session_anomalies[session_key],
                       "Rapid Transactions")

(* C26: no finding of the session analysis is returned by two              *)
(* process_event calls: a 'Rapid Transactions' event of the same station,  *)
(* customer, transaction time and time difference, or a 'Session Product   *)
(* Mismatch' event of the same station, customer and unscanned SKUs.       *)
C26_SessionFindingsReportedOnce ==
    \A at, again \in SessionFindings(ad_returned) :
        at[1] # again[1]
        => LET e == FindingAt(ad_returned, at)
               f == FindingAt(ad_returned, again)
           IN  ~(/\ e.event_name \in {"Rapid Transactions", "Session Product Mismatch"}
                 /\ e.event_name = f.event_name
                 /\ e.station_id = f.station_id
                 /\ e.attrs = f.attrs
                 /\ (e.event_name = "Rapid Transactions" => e.timestamp = f.timestamp))

(* The detectors 1 to 7 whose test the record passes, run one after the    *)
(* other in that order on the state st.                                    *)
AllMatching(st, streaming_event) ==
    LET dataset_lower == NormalizeDataset(DictGet(streaming_event, "dataset", <<>>))
        ev == streaming_event.event
        status == DictGet(ev, "status", None)
        station == DictGet(ev, "station_id", "UNKNOWN")
        cust == CustomerOf(ev)
        active == status = "Active"
        s1 == IF Contains(dataset_lower, T_rfid) /\ active
              THEN ProcessRfidData(st, ev, station, cust) ELSE st
        s2 == IF Contains(dataset_lower, T_pos) \/ Contains(dataset_lower, T_transaction)
              THEN ProcessPosTransaction(s1, ev, station, cust, status) ELSE s1
        s3 == IF Contains(dataset_lower, T_product) /\ Contains(dataset_lower, T_recogni)
                 /\ active
              THEN ProcessProductRecognition(s2, ev, station, cust) ELSE {s2}
        Rest(s) ==
            LET s4 == IF Contains(dataset_lower, T_queue) /\ active
                      THEN ProcessQueueMonitoring(s, ev, station, cust) ELSE s
                s5 == IF Contains(dataset_lower, T_inventory) /\ active
                      THEN ProcessInventorySnapshot(s4, ev, station) ELSE s4
                s6 == IF Contains(dataset_lower, T_staffing) /\ active
                      THEN ProcessStaffing(s5, ev, station) ELSE s5
            IN  IF Contains(dataset_lower, T_checkout) /\ active
                THEN ProcessCheckoutAction(s6, ev, station) ELSE s6
    IN  UNION {CheckScannerAvoidance(Rest(s), station) : s \in s3}

(* C27: detect() leaves the detector and the output file as the detectors  *)
(* 1 to 7 whose test the record passes leave them, run in that order and   *)
(* followed by the scanner avoidance sweep.                                *)
C27_EveryMatchingDetectorRuns ==
    [][(rec'.op = "detect" /\ "sink" \notin DOMAIN rec')
       => \E st \in AllMatching(Current, rec'.streaming_event) :
             /\ seen_rfids' = st.seen_rfids
             /\ scanned_items' = st.scanned_items
             /\ expected_weights' = st.expected_weights
             /\ inventory_snapshot' = st.inventory_snapshot
             /\ event_counter' = st.event_counter
             /\ written' = st.written
      ]_vars

(* C28: process_event on a record without station_id or without timestamp *)
(* returns an empty list and leaves event_cache and session_tracker as     *)
(* they were.                                                              *)
C28_MalformedRecordIsSkipped ==
    [][(ad_call'.op = "process_event" /\ ~IsProcessEvent(ad_call'))
       => /\ ~ad_call'.result.raised
          /\ ad_call'.result.detected = <<>>
          /\ ad_call'.result.session_anomalies = EmptyDict
          /\ event_cache' = event_cache
          /\ session_tracker' = session_tracker
      ]_vars

C28_Witness ==
    /\ ad_call.op = "process_event"
    /\ "station_id" \notin DOMAIN ad_call.event_data.event
    /\ "timestamp" \in DOMAIN ad_call.event_data
    /\ ad_ncalls = 3
    /\ event_cache # EmptyDict

(* the entries of a dataset that the cache of the station holds within the *)
(* correlation window of time T                                            *)
InWindow(cache, station_id, dataset, T) ==
    LET of_station == DictGet(cache, station_id, <<>>)
        events == IF Has(of_station, dataset) THEN Field(of_station, dataset) ELSE <<>>
    IN  {events[j] : j \in {k \in DOMAIN events :
                               Abs(FromIsoFormat(events[k].timestamp) - T)
                                  <= CorrelationWindow}}

(* C29: every 'Barcode Switching' event that the correlation returns       *)
(* pairs a recognition event of the window with a POS event of the window  *)
(* that is at most 10 s from it and no farther than any other POS event,   *)
(* whose SKU differs from predicted_product and whose second "_" field     *)
(* differs too; there are no more such events than recognition events      *)
(* with a POS event within 10 s.                                           *)
C29_BarcodeSwitchingComparesClosestPos ==
    [][IsProcessEvent(ad_call')
       => LET station_id == ad_call'.event_data.event.station_id
              T == FromIsoFormat(ad_call'.event_data.timestamp)
              recognitions == InWindow(event_cache', station_id, D_recognition, T)
              scans == InWindow(event_cache', station_id, D_pos, T)
              detected == ad_call'.result.detected
              switches == {i \in DOMAIN detected :
                              detected[i].event_name = "Barcode Switching"}
              Distance(r, p) == Abs(FromIsoFormat(r.timestamp)
                                    - FromIsoFormat(p.timestamp))
          IN  /\ \A i \in switches :
                    \E r \in recognitions, p \in scans :
                       /\ Field(r.data.data, "predicted_product")
                             = detected[i].attrs.predicted_sku
                       /\ Field(p.data.data, "sku") = detected[i].attrs.scanned_sku
                       /\ Distance(r, p) = detected[i].attrs.time_difference
                       /\ Distance(r, p) <= 10
                       /\ \A q \in scans : Distance(r, p) <= Distance(r, q)
                       /\ detected[i].attrs.predicted_sku # detected[i].attrs.scanned_sku
                       /\ detected[i].attrs.predicted_sku[2]
                             # detected[i].attrs.scanned_sku[2]
              /\ Cardinality(switches)
                    <= Len(SelectSeq(
                           IF Has(event_cache'[station_id], D_recognition)
                           THEN Field(event_cache'[station_id], D_recognition)
                           ELSE <<>>,
                           LAMBDA r : /\ Abs(FromIsoFormat(r.timestamp) - T)
                                         <= CorrelationWindow
                                      /\ \E p \in scans : Distance(r, p) <= 10))
      ]_vars

(* the recognition of 0:05 is compared with the POS scan of 0:08, not with *)
(* the earlier cached scan of 0:00                                         *)
C29_Witness ==
    /\ IsProcessEvent(ad_call)
    /\ ad_call.event_data.dataset = D_recognition
    /\ ad_call.event_data.timestamp = Time(0, 5)
    /\ ad_ncalls = 3
    /\ \E i \in DOMAIN ad_call.result.detected :
          /\ ad_call.result.detected[i].event_name = "Barcode Switching"
          /\ ad_call.result.detected[i].attrs.scanned_sku = <<"PRD", "S", "04">>
          /\ ad_call.result.detected[i].attrs.time_difference = 3
    /\ \E p \in InWindow(event_cache, <<"SCC1">>, D_pos, 5) : p.timestamp = Time(0, 0)

(* C30: process_event never raises ZeroDivisionError; a POS record whose   *)
(* catalog weight or measured weight is 0 gives no 'Weight Discrepancies', *)
(* and an event that carries actual_ratio is returned only when the window *)
(* holds a POS event, the ratio being a count over that positive count.    *)
C30_NoDivisionByZero ==
    [][IsProcessEvent(ad_call')
       => LET station_id == ad_call'.event_data.event.station_id
              data == ad_call'.event_data.event.data
              T == FromIsoFormat(ad_call'.event_data.timestamp)
              scans == IF Has(event_cache'[station_id], D_pos)
                       THEN Field(event_cache'[station_id], D_pos) ELSE <<>>
              pos_count == Cardinality({k \in DOMAIN scans :
                               Abs(FromIsoFormat(scans[k].timestamp) - T)
                                  <= CorrelationWindow})
              detected == ad_call'.result.detected
          IN  /\ ~ad_call'.result.raised
              /\ Reports(detected, "Weight Discrepancies")
                 => /\ ProductsCatalog[Field(data, "sku")].weight # 0
                    /\ Field(data, "weight_g") # 0
              /\ \A i \in DOMAIN detected :
                    "actual_ratio" \in DOMAIN detected[i].attrs
                    => /\ pos_count > 0
                       /\ detected[i].attrs.actual_ratio.den = pos_count
      ]_vars

(* a POS scan of the product whose catalog weight is 0, with a measured    *)
(* weight, has been processed, and the ratio events have been returned     *)
C30_Witness ==
    /\ IsProcessEvent(ad_call)
    /\ ad_call.event_data.dataset = D_pos
    /\ Field(ad_call.event_data.event.data, "sku") = <<"PRD", "S", "04">>
    /\ Field(ad_call.event_data.event.data, "weight_g") = 116
    /\ ~ad_call.result.raised
    /\ ~Reports(ad_call.result.detected, "Weight Discrepancies")
    /\ Reports(ad_call.result.detected, "RFID Sensor Malfunction")
    /\ ad_ncalls = 2

----------------------------------------------------------------------------
(* the detect() call of this step returned to its caller without an error *)
ReturnedNormally(call) ==
    /\ call.op = "detect"
    /\ "raised" \in DOMAIN call => ~call.raised

C32_SuccessOnlyOnRepeatedPosScan ==
    [][\A c \in Customers, s \in SKUs :
         SuccessesFor(written', c, s) # {}
         => /\ IsPosScan(rec', c, s)
            /\ s \in DictGet(scanned_items, c, {})
      ]_vars

(* C33: once the stream has reached its end without an error, read_events  *)
(* eventually makes a successful connect() or ends; it does not go round   *)
(* the exhausted stream forever.                                           *)
C33_EndOfStreamLeadsToReconnectOrEnd ==
    (cl_rec.op = "read" /\ cl_rec.outcome = "eof")
        ~> (gen = "done" \/ (cl_rec.op = "loop" /\ cl_rec.outcome = "connected"))

(* disconnect() or stop_streaming() has returned and no connect() has      *)
(* succeeded since: the handles were closed and not reopened, or the call  *)
(* just made is stop_streaming()                                           *)
Disconnected ==
    \/ client.connection = "closed"
    \/ client.stream = "closed"
    \/ cl_rec.op = "stop_streaming"

(* C34: in every state after disconnect() or stop_streaming() has returned *)
(* and before the next successful connect(), get_connection_status()       *)
(* reports connected False and running False.                              *)
C34_StatusAfterDisconnect ==
    Disconnected
    => /\ ~GetConnectionStatus(client).connected
       /\ ~GetConnectionStatus(client).running

(* C35: once stop_streaming() has been called after start_streaming(), at  *)
(* whatever point of the worker, is_running is False from then on and the  *)
(* worker eventually exits.                                                *)
C35_StopEndsTheWorker ==
    /\ [](caller.pc # "idle" => ~client.is_running)
    /\ (caller.pc # "idle") ~> (worker.pc = "exited")

(* C36: when stop_streaming() sets is_running to False while the worker is *)
(* iterating read_events, event_handler is called at most once more, only  *)
(* if the worker had already passed its test of is_running, and only with  *)
(* a line read before that point.                                          *)
C36_AtMostOneHandlerCallAfterStop ==
    (caller.pc # "idle" /\ caller.worker_at_stop # "started")
    => LET later == Len(worker.handled) - caller.handled_at_stop
       IN  /\ later <= 1
           /\ later = 1 => /\ caller.worker_at_stop = "checked"
                           /\ worker.handled[Len(worker.handled)] <= caller.sent_at_stop

(* the flag was set between the worker's test and its call of the handler: *)
(* the handler was called once more, and the worker has exited without     *)
(* handling the line that was read afterwards                              *)
C36_Witness ==
    /\ caller.pc = "returned"
    /\ caller.worker_at_stop = "checked"
    /\ Len(worker.handled) = caller.handled_at_stop + 1
    /\ caller.handled_at_stop = 1
    /\ Len(sent) > caller.sent_at_stop
    /\ worker.pc = "exited"

(* C37: after any sequence of add_event, generate_sample_events and        *)
(* clear_events calls the event_id values of the events of the collection  *)
(* are pairwise distinct.                                                  *)
C37_EventIdsPairwiseDistinct ==
    \A i, j \in DOMAIN event_generator.events :
        i # j => event_generator.events[i].event_id # event_generator.events[j].event_id

(* the last n elements of a sequence, in their order                       *)
LastOf(seq, n) ==
    SubSeq(seq, IF Len(seq) > n THEN Len(seq) - n + 1 ELSE 1, Len(seq))

(* C39: after any sequence of create_event calls, metrics['alerts'] holds  *)
(* at most 50 entries, which are the 50 most recently created warning or   *)
(* critical events, and events holds at most 100 entries, which are the    *)
(* 100 most recently created events, newest first.                         *)
C39_AlertsAndEventsKeepTheMostRecent ==
    LET alerting == SelectSeq(demo.file,
                              LAMBDA e : e.priority \in {"warning", "critical"})
        recent_alerts == LastOf(alerting, AlertsKept)
        recent_events == LastOf(demo.file, EventsKept)
    IN  /\ Len(demo.alerts) <= AlertsKept
        /\ {demo.alerts[i] : i \in DOMAIN demo.alerts}
              = {recent_alerts[i] : i \in DOMAIN recent_alerts}
        /\ Len(demo.events) <= EventsKept
        /\ Len(demo.events) = Len(recent_events)
        /\ \A i \in DOMAIN demo.events :
              demo.events[i] = recent_events[Len(recent_events) + 1 - i]

(* the seconds between the earliest and the latest record of a session     *)
RealSpan(session) ==
    LET times == {FromIsoFormat(session.events[i].timestamp) :
                     i \in DOMAIN session.events}
    IN  (CHOOSE t \in times : \A u \in times : u <= t)
        - (CHOOSE t \in times : \A u \in times : t <= u)

(* C38: for every session of session_tracker start_time <= last_activity,  *)
(* whatever the order of the timestamps of the records, so that the        *)
(* session duration is never negative; 'Suspicious Short Session' is       *)
(* returned only for a session whose records span less than 30 seconds.    *)
C38_SessionStartNotAfterLastActivity ==
    \A session_key \in DOMAIN session_tracker :
        LET session == session_tracker[session_key]
        IN  /\ FromIsoFormat(session.start_time) <= FromIsoFormat(session.last_activity)
            /\ (\E i \in DOMAIN AnalyzeSingleSession(session) :
                    AnalyzeSingleSession(session)[i].event_name
                        = "Suspicious Short Session")
               => RealSpan(session) < ShortSessionSeconds

====
